---- MODULE Spec2Model ----
(***************************************************************************)
(* Atlas routing engine: the health monitor's state machine, the segment   *)
(* analyzer, the routing engine's scoring and selection and the fallback   *)
(* sequencer, modelled from the TypeScript sources.                        *)
(*                                                                         *)
(* Every `number` of the sources is an IEEE-754 binary64 value.  The rates *)
(* and scores are therefore computed here with correctly rounded binary64  *)
(* arithmetic (round to nearest, ties to even) on exact naturals, so that  *)
(* a comparison such as  errorRate + timeoutRate > 0.3  has the outcome it *)
(* has in the running program.                                             *)
(***************************************************************************)
EXTENDS Integers, Sequences, FiniteSets, TLC

\* The function f with its value computed once for every argument, instead of
\* at every application
Tabulate(f) == f @@ <<>>

(***************************************************************************)
(* Exact naturals: little-endian sequences of limbs in base 2^15, without  *)
(* leading zero limbs; <<>> is 0.  Limb products stay below 2^31.          *)
(***************************************************************************)
LimbBits == 5 * 3
LimbBase == 2 ^ LimbBits

RECURSIVE NNorm(_)
NNorm(a) ==
  IF a = <<>> THEN <<>>
  ELSE IF a[Len(a)] = 0 THEN NNorm(SubSeq(a, 1, Len(a) - 1)) ELSE a

RECURSIVE NFromInt(_)
NFromInt(n) ==
  IF n = 0 THEN <<>> ELSE <<n % LimbBase>> \o NFromInt(n \div LimbBase)

NLimb(a, i) == IF i <= Len(a) THEN a[i] ELSE 0

RECURSIVE NAddC(_, _, _)
NAddC(a, b, c) ==
  IF a = <<>> /\ b = <<>> THEN (IF c = 0 THEN <<>> ELSE <<c>>)
  ELSE LET x == NLimb(a, 1) + NLimb(b, 1) + c
       IN  <<x % LimbBase>>
             \o NAddC(IF a = <<>> THEN <<>> ELSE Tail(a),
                      IF b = <<>> THEN <<>> ELSE Tail(b), x \div LimbBase)

NAdd(a, b) == NAddC(a, b, 0)

\* a - b for a >= b
RECURSIVE NSubB(_, _, _)
NSubB(a, b, br) ==
  IF a = <<>> THEN <<>>
  ELSE LET x == a[1] - NLimb(b, 1) - br
       IN  <<IF x < 0 THEN x + LimbBase ELSE x>>
             \o NSubB(Tail(a), IF b = <<>> THEN <<>> ELSE Tail(b),
                      IF x < 0 THEN 1 ELSE 0)

NSub(a, b) == NNorm(NSubB(a, b, 0))

\* -1, 0, 1 as a < b, a = b, a > b (both normalised)
RECURSIVE NCmpAt(_, _, _)
NCmpAt(a, b, i) ==
  IF i = 0 THEN 0
  ELSE IF a[i] < b[i] THEN -1
  ELSE IF a[i] > b[i] THEN 1
  ELSE NCmpAt(a, b, i - 1)

NCmp(a, b) ==
  IF Len(a) < Len(b) THEN -1
  ELSE IF Len(a) > Len(b) THEN 1
  ELSE NCmpAt(a, b, Len(a))

\* a * d for one limb d
RECURSIVE NMulSmallC(_, _, _)
NMulSmallC(a, d, c) ==
  IF a = <<>> THEN (IF c = 0 THEN <<>> ELSE <<c>>)
  ELSE LET x == a[1] * d + c
       IN  <<x % LimbBase>> \o NMulSmallC(Tail(a), d, x \div LimbBase)

NMulSmall(a, d) == IF d = 0 THEN <<>> ELSE NMulSmallC(a, d, 0)

RECURSIVE NMul(_, _)
NMul(a, b) ==
  IF b = <<>> \/ a = <<>> THEN <<>>
  ELSE NAdd(NMulSmall(a, b[1]),
            LET r == NMul(a, Tail(b)) IN IF r = <<>> THEN <<>> ELSE <<0>> \o r)

RECURSIVE IntBitLen(_)
IntBitLen(x) == IF x = 0 THEN 0 ELSE 1 + IntBitLen(x \div 2)

NBitLen(a) ==
  IF a = <<>> THEN 0 ELSE LimbBits * (Len(a) - 1) + IntBitLen(a[Len(a)])

NIsOdd(a) == a # <<>> /\ a[1] % 2 = 1

\* a * 2^k
NShl(a, k) ==
  IF a = <<>> THEN <<>>
  ELSE [i \in 1..(k \div LimbBits) |-> 0] \o NMulSmall(a, 2 ^ (k % LimbBits))

\* floor(a / 2^k)
NShr(a, k) ==
  LET w == k \div LimbBits
      j == k % LimbBits
      h == IF w >= Len(a) THEN <<>> ELSE SubSeq(a, w + 1, Len(a))
  IN  NNorm([i \in 1..Len(h) |->
               (h[i] \div (2 ^ j)) + (NLimb(h, i + 1) % (2 ^ j)) * (2 ^ (LimbBits - j))])

\* a mod 2^k
NModPow2(a, k) ==
  LET w == k \div LimbBits
      j == k % LimbBits
  IN  IF w >= Len(a) THEN a
      ELSE NNorm(SubSeq(a, 1, w) \o <<a[w + 1] % (2 ^ j)>>)

(***************************************************************************)
(* binary64 values >= 0: [m, e] stands for m * 2^e, with m = 0 (and e = 0) *)
(* or m of exactly MantBits bits.  The magnitudes that occur (rates,       *)
(* weights, take rates, scores) are far from the subnormal and overflow    *)
(* ranges, so only the rounding of the significand is modelled.            *)
(***************************************************************************)
MantBits == 53

FZero == [m |-> <<>>, e |-> 0]

\* Rounding is split into steps, each taking the values of the step before
\* as arguments.

\* q * 2^e, q being a rounded significand of MantBits or MantBits + 1 bits
FRoundCarry(q, e) ==
  IF NBitLen(q) > MantBits THEN [m |-> NShr(q, 1), e |-> e + 1] ELSE [m |-> q, e |-> e]

\* Round to nearest, ties to even: c compares the bits cut off with one half
FRoundTie(q, c, e, sticky) ==
  FRoundCarry(IF c = 1 \/ (c = 0 /\ (sticky \/ NIsOdd(q))) THEN NAdd(q, <<1>>) ELSE q, e)

\* m has len > MantBits bits; the low s = len - MantBits bits are cut off
FRoundCut(m, e, sticky, s) ==
  FRoundTie(NShr(m, s), NCmp(NModPow2(m, s), NShl(<<1>>, s - 1)), e + s, sticky)

FRoundLen(m, e, sticky, len) ==
  IF m = <<>> THEN FZero
  ELSE IF len <= MantBits
    THEN [m |-> NShl(m, MantBits - len), e |-> e - (MantBits - len)]
  ELSE FRoundCut(m, e, sticky, len - MantBits)

\* The binary64 nearest to (m + f) * 2^e, where 0 <= f < 1 and f > 0 iff
\* sticky; ties go to the even significand.  With sticky, m has more than
\* MantBits + 1 bits.
FRound(m, e, sticky) == FRoundLen(m, e, sticky, NBitLen(m))

FFromInt(n) == FRound(NFromInt(n), 0, FALSE)

\* -1, 0, 1 as a < b, a = b, a > b
FCmp(a, b) ==
  IF a.m = <<>> THEN (IF b.m = <<>> THEN 0 ELSE -1)
  ELSE IF b.m = <<>> THEN 1
  ELSE IF a.e < b.e THEN -1
  ELSE IF a.e > b.e THEN 1
  ELSE NCmp(a.m, b.m)

FGt(a, b) == FCmp(a, b) = 1
FGe(a, b) == FCmp(a, b) >= 0
FLt(a, b) == FCmp(a, b) = -1
FEq(a, b) == FCmp(a, b) = 0

FAdd(a, b) ==
  IF a.m = <<>> THEN b
  ELSE IF b.m = <<>> THEN a
  ELSE IF a.e <= b.e
    THEN FRound(NAdd(a.m, NShl(b.m, b.e - a.e)), a.e, FALSE)
    ELSE FRound(NAdd(b.m, NShl(a.m, a.e - b.e)), b.e, FALSE)

\* a - b for a >= b
FSub(a, b) ==
  IF b.m = <<>> THEN a
  ELSE IF a.e <= b.e
    THEN FRound(NSub(a.m, NShl(b.m, b.e - a.e)), a.e, FALSE)
    ELSE FRound(NSub(NShl(a.m, a.e - b.e), b.m), b.e, FALSE)

FMul(a, b) ==
  IF a.m = <<>> \/ b.m = <<>> THEN FZero
  ELSE FRound(NMul(a.m, b.m), a.e + b.e, FALSE)

\* Restoring division: k more quotient bits of st.r / d (st.r < d), the
\* quotient so far being st.q.
RECURSIVE FDivLoop(_, _, _)
FDivLoop(st, d, k) ==
  IF k = 0 THEN st
  ELSE IF NCmp(NAdd(st.r, st.r), d) >= 0
    THEN FDivLoop([r |-> NSub(NAdd(st.r, st.r), d), q |-> NAdd(NAdd(st.q, st.q), <<1>>)],
                  d, k - 1)
  ELSE FDivLoop([r |-> NAdd(st.r, st.r), q |-> NAdd(st.q, st.q)], d, k - 1)

\* Number of trailing zero bits of a > 0
RECURSIVE IntTrailingZeros(_)
IntTrailingZeros(x) == IF x % 2 = 1 THEN 0 ELSE 1 + IntTrailingZeros(x \div 2)

RECURSIVE NTrailingZeros(_)
NTrailingZeros(a) ==
  IF a[1] = 0 THEN LimbBits + NTrailingZeros(Tail(a)) ELSE IntTrailingZeros(a[1])

\* Short division of the limbs a[1..i] by one limb d, with incoming
\* remainder rem < d: [q |-> quotient limbs, r |-> remainder]
RECURSIVE NDivSmallAt(_, _, _, _)
NDivSmallAt(a, d, i, rem) ==
  IF i = 0 THEN [q |-> <<>>, r |-> rem]
  ELSE LET cur  == rem * LimbBase + a[i]
           rest == NDivSmallAt(a, d, i - 1, cur % d)
       IN  [q |-> Append(rest.q, cur \div d), r |-> rest.r]

\* The quotient normalised and the remainder as an exact natural
NDivSmall(a, d) ==
  LET qr == NDivSmallAt(a, d, Len(a), 0) IN [q |-> NNorm(qr.q), r |-> NFromInt(qr.r)]

\* The quotient qr.q with remainder qr.r, scaled by 2^e, rounded once
FRoundQuotient(qr, e) == FRound(qr.q, e, qr.r # <<>>)

\* tz is the number of trailing zero bits of b.m
FDivBy(a, b, tz) ==
  IF MantBits - tz <= LimbBits
    THEN \* the divisor is (one limb) * 2^(b.e + tz)
         FRoundQuotient(NDivSmall(<<0, 0>> \o a.m, NShr(b.m, tz)[1]),
                        a.e - 2 * LimbBits - (b.e + tz))
    ELSE \* the first quotient bit, then MantBits + 2 more
         FRoundQuotient(FDivLoop(IF NCmp(a.m, b.m) >= 0
                                   THEN [r |-> NSub(a.m, b.m), q |-> <<1>>]
                                   ELSE [r |-> a.m, q |-> <<>>],
                                 b.m, MantBits + 2),
                        a.e - b.e - (MantBits + 2))

\* a / b for b > 0.  The quotient of the significands is taken to more than
\* MantBits + 1 bits and rounded once, with the remainder as sticky bit.
FDiv(a, b) == IF a.m = <<>> THEN FZero ELSE FDivBy(a, b, NTrailingZeros(b.m))

\* Math.round(a): the integer nearest to a, halves going up
MathRound(a) ==
  IF a.m = <<>> \/ a.e >= 0 THEN a
  ELSE LET k    == 0 - a.e
           q    == NShr(a.m, k)
           r    == NModPow2(a.m, k)
           half == NShl(<<1>>, k - 1)
       IN  FRound(IF NCmp(r, half) >= 0 THEN NAdd(q, <<1>>) ELSE q, 0, FALSE)

\* The binary64 value of the decimal literal n/d (n, d naturals, d > 0)
FLit(n, d) == FDiv(FFromInt(n), FFromInt(d))

(***************************************************************************)
(* Bounds of the model                                                     *)
(***************************************************************************)
\* SpecMonitor: outcomes recorded for the observed acquirer, and the number
\* of runs of equal outcomes in its observation history.
MaxObs == 22
MaxRuns == 3
MaxRecorded == 3

(***************************************************************************)
(* models/types.ts                                                         *)
(***************************************************************************)
Outcome == {"approved", "declined", "error", "timeout"}
Status == {"healthy", "degraded", "down"}

(***************************************************************************)
(* HealthMonitor                                                           *)
(***************************************************************************)
WINDOW_SIZE == 20
CONSECUTIVE_FAILURES_DOWN == 5
CONSECUTIVE_SUCCESSES_RECOVERY == 3

\* The identifiers the monitor is asked about: the configured names and the
\* short form the historical records use.
AcquirerIds == {"Acquirer A", "Acquirer B", "Acquirer C", "Acquirer D", "A"}

\* Map.get(acquirer) of an identifier that has no entry
NoState == [absent |-> TRUE]

VARIABLES
  state,      \* HealthMonitor.state: identifier -> AcquirerState, or NoState
  hist,       \* history variable: every outcome recorded per identifier, in order
  op,         \* the operation that ran last, with its arguments
  result,     \* what the operation that ran last returned
  config,     \* which acquirer configuration is deployed (index in Configs)
  data        \* which historical data set the analyzer loaded (index in Histories)

\* Mutant: a decline counts as a failure
isFailure_Declined(outcome) == outcome # "approved"

isFailure(outcome) == outcome = "error" \/ outcome = "timeout"

isSuccess(outcome) == outcome = "approved" \/ outcome = "declined"

\* lastUpdated holds the reading of the clock, new Date().toISOString(), that
\* the entry was last given.  The reading is kept by the place that took it:
\* getOrCreateState on creating the entry, or the n-th recordOutcome of the
\* acquirer.
NewState ==
  [recentOutcomes |-> <<>>, consecutiveFailures |-> 0, consecutiveSuccesses |-> 0,
   status |-> "healthy", lastUpdated |-> [taken |-> "getOrCreateState"],
   totalProcessed |-> 0]

\* The map after getOrCreateState(acquirer)
getOrCreateState(st, acquirer) ==
  IF st[acquirer] = NoState THEN [st EXCEPT ![acquirer] = NewState] ELSE st

CountOf(outcomes, S) == Cardinality({i \in DOMAIN outcomes : outcomes[i] \in S})

\* n / len in binary64, for the counts a window can hold
Ratio ==
  Tabulate([n \in 0..WINDOW_SIZE, len \in 1..WINDOW_SIZE |-> FDiv(FFromInt(n), FFromInt(len))])

\* Mutant: the counts are divided by the size of a full window
RatioOf_OverWindow(n, len) == FDiv(FFromInt(n), FFromInt(WINDOW_SIZE))

\* n / len: looked up for the counts of the table, computed otherwise
RatioOf(n, len) ==
  IF <<n, len>> \in DOMAIN Ratio THEN Ratio[n, len] ELSE FDiv(FFromInt(n), FFromInt(len))

computeRates(outcomes) ==
  IF Len(outcomes) = 0
    THEN [successRate |-> FFromInt(1), errorRate |-> FZero, timeoutRate |-> FZero]
    ELSE LET successes == CountOf(outcomes, {"approved", "declined"})
             errors    == CountOf(outcomes, {"error"})
             timeouts  == CountOf(outcomes, {"timeout"})
             len       == Len(outcomes)
         IN  [successRate |-> RatioOf(successes, len),
              errorRate   |-> RatioOf(errors, len),
              timeoutRate |-> RatioOf(timeouts, len)]

\* Mutant: a healthy acquirer is degraded above a fail rate of 0.5 only
FailRateDegraded_Half == FLit(5, 10)

\* Mutant: a degraded acquirer is healthy above a success rate of 0.9 only
SuccessRateHealthy_High == FLit(9, 10)

\* Mutant: a degraded acquirer is down above a fail rate of 0.6 only
FailRateDown_High == FLit(6, 10)

\* The literals 0.3, 0.5 and 0.8 of updateStatus
FailRateDegraded == FLit(3, 10)
FailRateDown == FLit(5, 10)
SuccessRateHealthy == FLit(8, 10)

\* Mutant: updateStatus without the test of consecutiveFailures
StatusAfter_RatesOnly(s, rates) ==
  LET failRate == FAdd(rates.errorRate, rates.timeoutRate)
  IN  IF s.status = "healthy"
        THEN IF FGt(failRate, FailRateDegraded) THEN "degraded" ELSE s.status
      ELSE IF s.status = "degraded"
        THEN IF FGt(failRate, FailRateDown) THEN "down"
             ELSE IF FGt(rates.successRate, SuccessRateHealthy)
                       /\ s.consecutiveFailures = 0 THEN "healthy"
             ELSE s.status
      ELSE IF s.consecutiveSuccesses >= CONSECUTIVE_SUCCESSES_RECOVERY THEN "degraded"
      ELSE s.status

\* Mutant: a down acquirer recovers straight to healthy
StatusAfter_RecoverHealthy(s, rates) ==
  LET failRate == FAdd(rates.errorRate, rates.timeoutRate)
  IN  IF s.status = "healthy"
        THEN IF s.consecutiveFailures >= CONSECUTIVE_FAILURES_DOWN THEN "down"
             ELSE IF FGt(failRate, FailRateDegraded) THEN "degraded"
             ELSE s.status
      ELSE IF s.status = "degraded"
        THEN IF s.consecutiveFailures >= CONSECUTIVE_FAILURES_DOWN
                  \/ FGt(failRate, FailRateDown) THEN "down"
             ELSE IF FGt(rates.successRate, SuccessRateHealthy)
                       /\ s.consecutiveFailures = 0 THEN "healthy"
             ELSE s.status
      ELSE IF s.consecutiveSuccesses >= CONSECUTIVE_SUCCESSES_RECOVERY THEN "healthy"
      ELSE s.status

\* The branches of updateStatus on the rates of the window
StatusAfter(s, rates) ==
  LET failRate == FAdd(rates.errorRate, rates.timeoutRate)
  IN  IF s.status = "healthy"
        THEN IF s.consecutiveFailures >= CONSECUTIVE_FAILURES_DOWN THEN "down"
             ELSE IF FGt(failRate, FailRateDegraded) THEN "degraded"
             ELSE s.status
      ELSE IF s.status = "degraded"
        THEN IF s.consecutiveFailures >= CONSECUTIVE_FAILURES_DOWN
                  \/ FGt(failRate, FailRateDown) THEN "down"
             ELSE IF FGt(rates.successRate, SuccessRateHealthy)
                       /\ s.consecutiveFailures = 0 THEN "healthy"
             ELSE s.status
      ELSE IF s.consecutiveSuccesses >= CONSECUTIVE_SUCCESSES_RECOVERY THEN "degraded"
      ELSE s.status

\* The status updateStatus leaves in s
updateStatus(s) == StatusAfter(s, computeRates(s.recentOutcomes))

\* Mutant: the window is never shifted
PushOutcome_NoShift(outcomes, outcome) == Append(outcomes, outcome)

\* The window after push and, beyond WINDOW_SIZE entries, shift
PushOutcome(outcomes, outcome) ==
  LET pushed == Append(outcomes, outcome)
  IN  IF Len(pushed) > WINDOW_SIZE THEN Tail(pushed) ELSE pushed

\* The length of the run of outcomes of these kinds that ends h
TrailingRun(h, kinds) ==
  LET others == {i \in DOMAIN h : h[i] \notin kinds}
  IN  IF others = {} THEN Len(h)
      ELSE Len(h) - (CHOOSE i \in others : \A j \in others : j <= i)

\* Mutant: the counters are the runs that end the window
recordOutcome_WindowCounters(st, acquirer, outcome) ==
  LET s  == getOrCreateState(st, acquirer)[acquirer]
      w  == PushOutcome(s.recentOutcomes, outcome)
      s1 == [s EXCEPT
               !.recentOutcomes = w,
               !.consecutiveFailures = TrailingRun(w, {"error", "timeout"}),
               !.consecutiveSuccesses = TrailingRun(w, {"approved", "declined"}),
               !.totalProcessed = s.totalProcessed + 1,
               !.lastUpdated = [taken |-> "recordOutcome", call |-> s.totalProcessed + 1]]
  IN  [st EXCEPT ![acquirer] = [s1 EXCEPT !.status = updateStatus(s1)]]

\* Mutant: the outcome is entered in every entry of the map
recordOutcome_EveryEntry(st, acquirer, outcome) ==
  LET created == getOrCreateState(st, acquirer)
      Entered(s) ==
        LET s1 == [s EXCEPT
                     !.recentOutcomes = PushOutcome(s.recentOutcomes, outcome),
                     !.consecutiveFailures =
                        IF isFailure(outcome) THEN s.consecutiveFailures + 1
                        ELSE IF isSuccess(outcome) THEN 0 ELSE @,
                     !.consecutiveSuccesses =
                        IF isFailure(outcome) THEN 0
                        ELSE IF isSuccess(outcome) THEN s.consecutiveSuccesses + 1 ELSE @,
                     !.totalProcessed = s.totalProcessed + 1,
                     !.lastUpdated = [taken |-> "recordOutcome", call |-> s.totalProcessed + 1]]
        IN  [s1 EXCEPT !.status = updateStatus(s1)]
  IN  [a \in DOMAIN created |->
        IF created[a] = NoState THEN NoState ELSE Entered(created[a])]

\* The map after recordOutcome(acquirer, outcome)
recordOutcome(st, acquirer, outcome) ==
  LET s  == getOrCreateState(st, acquirer)[acquirer]
      s1 == [s EXCEPT
               !.recentOutcomes = PushOutcome(s.recentOutcomes, outcome),
               !.consecutiveFailures =
                  IF isFailure(outcome) THEN s.consecutiveFailures + 1
                  ELSE IF isSuccess(outcome) THEN 0 ELSE @,
               !.consecutiveSuccesses =
                  IF isFailure(outcome) THEN 0
                  ELSE IF isSuccess(outcome) THEN s.consecutiveSuccesses + 1 ELSE @,
               !.totalProcessed = s.totalProcessed + 1,
               !.lastUpdated = [taken |-> "recordOutcome", call |-> s.totalProcessed + 1]]
  IN  [st EXCEPT ![acquirer] = [s1 EXCEPT !.status = updateStatus(s1)]]

\* Mutant: every acquirer is available
isAvailable_Always(st, acquirer) == TRUE

\* isAvailable(acquirer): unknown acquirers default to available
isAvailable(st, acquirer) ==
  IF st[acquirer] = NoState THEN TRUE ELSE st[acquirer].status # "down"

vars == <<state, hist, op, result, config, data>>

\* recordOutcome returns nothing
NoResult == [kind |-> "void"]

\* Runs of equal outcomes in a history
Runs(h) ==
  IF h = <<>> THEN 0
  ELSE 1 + Cardinality({i \in 2..Len(h) : h[i] # h[i - 1]})

TotalProcessed(a) == IF state[a] = NoState THEN 0 ELSE state[a].totalProcessed

InitMonitor ==
  /\ state = [a \in AcquirerIds |-> NoState]
  /\ hist = [a \in AcquirerIds |-> <<>>]
  /\ op = [name |-> "init"]
  /\ result = NoResult
  /\ config = 1
  /\ data = 1

RecordOutcome(a, o) ==
  /\ state' = recordOutcome(state, a, o)
  /\ hist' = [hist EXCEPT ![a] = Append(@, o)]
  /\ op' = [name |-> "recordOutcome", acquirer |-> a, outcome |-> o]
  /\ result' = NoResult
  /\ UNCHANGED <<config, data>>

(***************************************************************************)
(* SpecMonitor: one acquirer observed over more outcomes than the window   *)
(* holds.                                                                  *)
(***************************************************************************)
Observed == "Acquirer A"

MonitorRecord ==
  \E o \in Outcome :
    /\ TotalProcessed(Observed) < MaxObs
    /\ Runs(Append(hist[Observed], o)) <= MaxRuns
    /\ RecordOutcome(Observed, o)

NextMonitor == MonitorRecord

SpecMonitor == InitMonitor /\ [][NextMonitor]_vars

(***************************************************************************)
(* PerformanceAnalyzer (the blending implementation)                       *)
(***************************************************************************)
getAmountRange(amount) ==
  IF amount <= 100 THEN "low" ELSE IF amount <= 500 THEN "mid" ELSE "high"

\* segments: a map from segment key (a string) to [approved, total]
addToSegment(segs, key, approved) ==
  LET existing == IF key \in DOMAIN segs THEN segs[key] ELSE [approved |-> 0, total |-> 0]
      updated  == [approved |-> existing.approved + approved, total |-> existing.total + 1]
  IN  IF key \in DOMAIN segs THEN [segs EXCEPT ![key] = updated]
      ELSE segs @@ (key :> updated)

\* The six buckets one transaction is counted in
AddTransaction(segs, tx) ==
  LET isApproved  == IF tx.outcome = "approved" THEN 1 ELSE 0
      amountRange == getAmountRange(tx.amount)
      s1 == addToSegment(segs, tx.acquirer, isApproved)
      s2 == addToSegment(s1, tx.acquirer \o ":currency:" \o tx.currency, isApproved)
      s3 == addToSegment(s2, tx.acquirer \o ":cardType:" \o tx.cardType, isApproved)
      s4 == addToSegment(s3, tx.acquirer \o ":country:" \o tx.country, isApproved)
      s5 == addToSegment(s4, tx.acquirer \o ":amountRange:" \o amountRange, isApproved)
  IN  addToSegment(s5, tx.acquirer \o ":currency:" \o tx.currency
                         \o ":cardType:" \o tx.cardType, isApproved)

\* The for loop of loadAndCompute, from transaction i on.  The second
\* disjunct of the exit test is never true: it has the index evaluated at
\* every iteration instead of at the end of the loop.
RECURSIVE loadFrom(_, _, _)
loadFrom(segs, transactions, i) ==
  IF i > Len(transactions) \/ DOMAIN segs = {"?"} THEN segs
  ELSE loadFrom(AddTransaction(segs, transactions[i]), transactions, i + 1)

\* The segment index built by the constructor
loadAndCompute(transactions) == loadFrom(<<>>, transactions, 1)

\* null is modelled by sampleSize 0
NoSegment == [rate |-> FZero, sampleSize |-> 0]

getSegment(segs, key) ==
  IF key \notin DOMAIN segs \/ segs[key].total = 0 THEN NoSegment
  ELSE [rate |-> FDiv(FFromInt(segs[key].approved), FFromInt(segs[key].total)),
        sampleSize |-> segs[key].total]

MIN_SAMPLE == 5

Has(filters, field) == field \in DOMAIN filters

\* The buckets getApprovalRate looks up, in order: segment key, label, weight
CandidateKeys(acquirer, filters) ==
  (IF Has(filters, "currency") /\ Has(filters, "cardType")
     THEN <<[key |-> acquirer \o ":currency:" \o filters.currency
                       \o ":cardType:" \o filters.cardType,
             segment |-> filters.currency \o "/" \o filters.cardType, weight |-> 4]>>
     ELSE <<>>)
  \o (IF Has(filters, "currency")
        THEN <<[key |-> acquirer \o ":currency:" \o filters.currency,
                segment |-> filters.currency, weight |-> 2]>>
        ELSE <<>>)
  \o (IF Has(filters, "cardType")
        THEN <<[key |-> acquirer \o ":cardType:" \o filters.cardType,
                segment |-> filters.cardType, weight |-> 2]>>
        ELSE <<>>)
  \o (IF Has(filters, "country")
        THEN <<[key |-> acquirer \o ":country:" \o filters.country,
                segment |-> filters.country, weight |-> 2]>>
        ELSE <<>>)
  \o (IF Has(filters, "amount")
        THEN <<[key |-> acquirer \o ":amountRange:" \o getAmountRange(filters.amount),
                segment |-> "amount:" \o getAmountRange(filters.amount), weight |-> 2]>>
        ELSE <<>>)
  \o <<[key |-> acquirer, segment |-> "overall", weight |-> 1]>>

\* Mutant: every bucket that holds a transaction is kept
KeptKeys_NoMinimum(segs, acquirer, filters) ==
  SelectSeq(CandidateKeys(acquirer, filters),
            LAMBDA k : getSegment(segs, k.key).sampleSize >= 1)

\* The buckets that hold at least MIN_SAMPLE transactions
KeptKeys(segs, acquirer, filters) ==
  SelectSeq(CandidateKeys(acquirer, filters),
            LAMBDA k : getSegment(segs, k.key).sampleSize >= MIN_SAMPLE)

\* candidates.push({ ...seg, segment, weight }) for each bucket kept
CandidatesOf(segs, kept) ==
  [i \in DOMAIN kept |->
    LET seg == getSegment(segs, kept[i].key)
    IN  [rate |-> seg.rate, sampleSize |-> seg.sampleSize,
         segment |-> kept[i].segment, weight |-> kept[i].weight]]

\* The candidates in the order getApprovalRate pushes them
Candidates(segs, acquirer, filters) ==
  CandidatesOf(segs, KeptKeys(segs, acquirer, filters))

\* Mutant: the blending loop gives every candidate the weight 1
BlendStep_Unweighted(acc, c) ==
  [weightedSum     |-> FAdd(acc.weightedSum, c.rate),
   totalWeight     |-> acc.totalWeight + 1,
   totalSampleSize |-> acc.totalSampleSize + c.sampleSize,
   segmentLabels   |-> IF c.segment # "overall"
                         THEN Append(acc.segmentLabels, c.segment)
                         ELSE acc.segmentLabels]

\* Mutant: the blending loop counts the sample of the baseline only, the
\* other buckets being parts of it
BlendStep_BaselineSample(acc, c) ==
  [weightedSum     |-> FAdd(acc.weightedSum, FMul(c.rate, FFromInt(c.weight))),
   totalWeight     |-> acc.totalWeight + c.weight,
   totalSampleSize |-> IF c.segment = "overall" THEN c.sampleSize
                       ELSE acc.totalSampleSize,
   segmentLabels   |-> IF c.segment # "overall"
                         THEN Append(acc.segmentLabels, c.segment)
                         ELSE acc.segmentLabels]

\* The body of the blending loop
BlendStep(acc, c) ==
  [weightedSum     |-> FAdd(acc.weightedSum, FMul(c.rate, FFromInt(c.weight))),
   totalWeight     |-> acc.totalWeight + c.weight,
   totalSampleSize |-> acc.totalSampleSize + c.sampleSize,
   segmentLabels   |-> IF c.segment # "overall"
                         THEN Append(acc.segmentLabels, c.segment)
                         ELSE acc.segmentLabels]

\* The running sums of the blending loop over candidates[1..i]
RECURSIVE BlendSums(_, _)
BlendSums(candidates, i) ==
  IF i = 0
    THEN [weightedSum |-> FZero, totalWeight |-> 0, totalSampleSize |-> 0,
          segmentLabels |-> <<>>]
    ELSE BlendStep(BlendSums(candidates, i - 1), candidates[i])

\* labels.join(sep)
RECURSIVE Join(_, _)
Join(labels, sep) ==
  IF Len(labels) = 0 THEN ""
  ELSE IF Len(labels) = 1 THEN labels[1]
  ELSE labels[1] \o sep \o Join(Tail(labels), sep)

\* The performance returned after the blending loop left the sums b
Blended(acquirer, b) ==
  [acquirer |-> acquirer,
   approvalRate |-> FDiv(b.weightedSum, FFromInt(b.totalWeight)),
   sampleSize |-> b.totalSampleSize,
   segment |-> IF Len(b.segmentLabels) > 0 THEN Join(b.segmentLabels, "+") ELSE "overall"]

\* The three returns of getApprovalRate
PerformanceOf(acquirer, candidates) ==
  IF Len(candidates) = 0
    THEN [acquirer |-> acquirer, approvalRate |-> FZero, sampleSize |-> 0,
          segment |-> "none"]
  ELSE IF Len(candidates) = 1
    THEN [acquirer |-> acquirer, approvalRate |-> candidates[1].rate,
          sampleSize |-> candidates[1].sampleSize,
          segment |-> candidates[1].segment]
  ELSE Blended(acquirer, BlendSums(candidates, Len(candidates)))

getApprovalRate(segs, acquirer, filters) ==
  PerformanceOf(acquirer, Candidates(segs, acquirer, filters))

(***************************************************************************)
(* Acquirer configuration (config/acquirers.ts) and historical data        *)
(***************************************************************************)
AcquirerA == [name |-> "Acquirer A", takeRate |-> FLit(28, 10), enabled |-> TRUE]
AcquirerB == [name |-> "Acquirer B", takeRate |-> FLit(31, 10), enabled |-> TRUE]
AcquirerC == [name |-> "Acquirer C", takeRate |-> FLit(21, 10), enabled |-> TRUE]
AcquirerD == [name |-> "Acquirer D", takeRate |-> FLit(25, 10), enabled |-> TRUE]

\* The repository's list, the list with Acquirers B and C switched off, the
\* list with a fourth acquirer, and the list with no take rate charged
ConfigsFrom(list, fourth) ==
  <<list,
    <<list[1], [list[2] EXCEPT !.enabled = FALSE], [list[3] EXCEPT !.enabled = FALSE]>>,
    Append(list, fourth),
    [i \in DOMAIN list |-> [list[i] EXCEPT !.takeRate = FZero]]>>

\* Deployed configurations
Configs == ConfigsFrom(<<AcquirerA, AcquirerB, AcquirerC>>, AcquirerD)

acquirers == Configs[config]

Tx(acquirer, amount, currency, cardType, country, outcome) ==
  [acquirer |-> acquirer, amount |-> amount, currency |-> currency,
   cardType |-> cardType, country |-> country, outcome |-> outcome]

Rep(n, tx) == [i \in 1..n |-> tx]

\* total transactions of one acquirer and one shape, `approved` of them approved
Group(acquirer, amount, currency, cardType, country, approved, total) ==
  Rep(approved, Tx(acquirer, amount, currency, cardType, country, "approved"))
  \o Rep(total - approved, Tx(acquirer, amount, currency, cardType, country, "declined"))

Mx(acquirer, approved, total) == Group(acquirer, 200, "MXN", "credit", "MX", approved, total)
Us(acquirer, approved, total) == Group(acquirer, 50, "USD", "debit", "US", approved, total)
Br(acquirer, approved, total) == Group(acquirer, 1000, "BRL", "debit", "BR", approved, total)

\* Historical data sets.  The generated data names acquirers "A", "B", "C".
Histories ==
  << \* 1: MXN: A 90%, B 95%, C 80%;  USD: A 70%, B 40%, C 70%
     Mx("A", 18, 20) \o Mx("B", 19, 20) \o Mx("C", 16, 20)
       \o Us("A", 14, 20) \o Us("B", 8, 20) \o Us("C", 14, 20),
     \* 2: BRL only, so that an MXN credit request has the overall figures to go
     \*    by: A 90%, B 3 of 4 (too few), C 85%
     Br("A", 18, 20) \o Br("B", 3, 4) \o Br("C", 17, 20),
     \* 3: A and C alike, B below 50% for USD, D under its full name at 50% overall
     Mx("A", 14, 20) \o Mx("B", 16, 20) \o Mx("C", 14, 20)
       \o Us("A", 10, 20) \o Us("B", 9, 20) \o Us("C", 10, 20)
       \o Br("Acquirer D", 10, 20) >>

\* The deployments explored: <<configuration, data set>>
Worlds == {<<1, 1>>, <<1, 2>>, <<2, 1>>, <<3, 3>>, <<4, 3>>}

\* The analyzer's segment index, per data set
Segments == Tabulate([d \in DOMAIN Histories |-> loadAndCompute(Histories[d])])

\* Request shapes (amount, currency, cardType, country)
Shapes ==
  { [amount |-> 200, currency |-> "MXN", cardType |-> "credit", country |-> "MX"],
    [amount |-> 50, currency |-> "USD", cardType |-> "debit", country |-> "US"] }

OptimizationMode == {"maximize_approvals", "balanced", "cost_conscious"}

\* PaymentRequest: a shape, with or without optimizationMode
Requests ==
  Shapes \cup
  { [amount |-> sh.amount, currency |-> sh.currency, cardType |-> sh.cardType,
     country |-> sh.country, optimizationMode |-> m] : sh \in Shapes, m \in OptimizationMode }

\* The filters object route and getSequence build from the request
FiltersOf(request) ==
  [currency |-> request.currency, cardType |-> request.cardType,
   country |-> request.country, amount |-> request.amount]

NamesOf(acqs) == {acqs[i].name : i \in DOMAIN acqs}

ConfiguredNames == UNION {NamesOf(Configs[c]) : c \in DOMAIN Configs}

(***************************************************************************)
(* RoutingEngine with an injected health provider                          *)
(***************************************************************************)
\* s.replace(pattern, ''): the first occurrence of pattern removed
Replace(s, pattern) ==
  LET n == Len(s)
      m == Len(pattern)
      hits == {i \in 1..(n - m + 1) : SubSeq(s, i, i + m - 1) = pattern}
  IN  IF hits = {} THEN s
      ELSE LET i == CHOOSE j \in hits : \A k \in hits : j <= k
           IN  SubSeq(s, 1, i - 1) \o SubSeq(s, i + m, n)

\* perfShort.sampleSize > perfFull.sampleSize ? perfShort : perfFull
BestOf(perfFull, perfShort) ==
  IF perfShort.sampleSize > perfFull.sampleSize THEN perfShort ELSE perfFull

resolvePerformance(segs, acquirerName, filters) ==
  BestOf(getApprovalRate(segs, acquirerName, filters),
         getApprovalRate(segs, Replace(acquirerName, "Acquirer "), filters))

\* resolvePerformance for every data set, configured name and request shape
Resolved ==
  Tabulate([d \in DOMAIN Histories |->
    Tabulate([name \in ConfiguredNames |->
      Tabulate([f \in {FiltersOf(sh) : sh \in Shapes} |->
        resolvePerformance(Segments[d], name, f)])])])

COST_CONSCIOUS_APPROVAL_THRESHOLD_PP == FLit(5, 100)

HEALTH_SCORE_MAP == [healthy |-> FFromInt(1), degraded |-> FLit(3, 10), down |-> FZero]

\* Mutant: the balanced weights add up to more than 1
MODE_WEIGHTS_Heavy ==
  [maximize_approvals |-> [approval |-> FLit(80, 100), health |-> FLit(15, 100),
                           cost |-> FLit(5, 100)],
   balanced           |-> [approval |-> FLit(60, 100), health |-> FLit(25, 100),
                           cost |-> FLit(25, 100)],
   cost_conscious     |-> [approval |-> FLit(40, 100), health |-> FLit(20, 100),
                           cost |-> FLit(40, 100)]]

MODE_WEIGHTS ==
  [maximize_approvals |-> [approval |-> FLit(80, 100), health |-> FLit(15, 100),
                           cost |-> FLit(5, 100)],
   balanced           |-> [approval |-> FLit(60, 100), health |-> FLit(25, 100),
                           cost |-> FLit(15, 100)],
   cost_conscious     |-> [approval |-> FLit(40, 100), health |-> FLit(20, 100),
                           cost |-> FLit(40, 100)]]

FMax(a, b) == IF FGt(b, a) THEN b ELSE a

\* Math.max(...acquirers.map(a => a.takeRate)) over acqs[1..i]
RECURSIVE MaxTakeRateUpTo(_, _)
MaxTakeRateUpTo(acqs, i) ==
  IF i = 1 THEN acqs[1].takeRate
  ELSE FMax(MaxTakeRateUpTo(acqs, i - 1), acqs[i].takeRate)

\* The greatest take rate of the enabled entries only
maxTakeRate_EnabledOnly(acqs) ==
  LET rates == {acqs[i].takeRate : i \in {j \in DOMAIN acqs : acqs[j].enabled}}
  IN  CHOOSE m \in rates : \A t \in rates : FGe(m, t)

maxTakeRate(acqs) == MaxTakeRateUpTo(acqs, Len(acqs))

\* maxTakeRate > 0 ? 1 - acq.takeRate / maxTakeRate : 0
costScore(takeRate, max) ==
  IF FGt(max, FZero) THEN FSub(FFromInt(1), FDiv(takeRate, max)) ELSE FZero

CostScores(acqs, max) == Tabulate([i \in DOMAIN acqs |-> costScore(acqs[i].takeRate, max)])

\* What a RoutingEngine and its FallbackSequencer work from: the configured
\* list, the cost score of each of its entries, and what resolvePerformance
\* returns for each name and filters
Engine(acqs, perf) ==
  [acquirers |-> acqs, costScore |-> CostScores(acqs, maxTakeRate(acqs)),
   performance |-> perf]

\* weights.approval * approvalRateScore + weights.health * healthScore
\*   + weights.cost * costScore
TotalScore(weights, approvalRateScore, healthScore, cost) ==
  FAdd(FAdd(FMul(weights.approval, approvalRateScore), FMul(weights.health, healthScore)),
       FMul(weights.cost, cost))

\* The AcquirerScore the loop of route pushes
AcquirerScore(acq, weights, bestPerf, status, healthScore, cost) ==
  [acquirer |-> acq.name,
   totalScore |-> TotalScore(weights, bestPerf.approvalRate, healthScore, cost),
   approvalRateScore |-> bestPerf.approvalRate, healthScore |-> healthScore,
   costScore |-> cost, approvalRate |-> bestPerf.approvalRate,
   healthStatus |-> status, takeRate |-> acq.takeRate]

\* The score of acquirer i of the engine, the provider having reported status
ScoreOf(eng, filters, mode, i, status) ==
  AcquirerScore(eng.acquirers[i], MODE_WEIGHTS[mode],
                eng.performance[eng.acquirers[i].name][filters], status,
                HEALTH_SCORE_MAP[status], eng.costScore[i])

\* Math.round(rate * 10000) / 10000
Round4(rate) == FDiv(MathRound(FMul(rate, FFromInt(10000))), FFromInt(10000))

\* Round4 of every rate computeRates can return
Rounded ==
  Tabulate([rate \in {Ratio[n, len] : n \in 0..WINDOW_SIZE, len \in 1..WINDOW_SIZE} |->
              Round4(rate)])

\* The HealthStatus built from the state s of the acquirer
HealthStatus(acquirer, s, rates, rounded) ==
  [acquirer |-> acquirer, status |-> s.status,
   consecutiveFailures |-> s.consecutiveFailures,
   metrics |-> [successRate |-> rounded[rates.successRate],
                errorRate |-> rounded[rates.errorRate],
                timeoutRate |-> rounded[rates.timeoutRate],
                totalProcessed |-> s.totalProcessed],
   lastUpdated |-> s.lastUpdated]

HealthIn(st1, acquirer) ==
  [health |-> HealthStatus(acquirer, st1[acquirer],
                           computeRates(st1[acquirer].recentOutcomes), Rounded),
   state |-> st1]

\* Mutant: the query is counted as an approved outcome
getHealth_Counting(st, acquirer) == HealthIn(recordOutcome(st, acquirer, "approved"), acquirer)

\* getHealth(acquirer): the HealthStatus returned, and the monitor's map after
\* the getOrCreateState it starts with
getHealth(st, acquirer) == HealthIn(getOrCreateState(st, acquirer), acquirer)

\* Mutant: the array is left as it is
SortBy_Unsorted(seq, field, descending) == seq

\* Mutant: a sort that puts elements that compare equal in reverse order
SortBy_TiesReversed(seq, field, descending) ==
  LET n == Len(seq)
      Before(j, i) ==
        LET c == IF descending THEN FCmp(seq[i][field], seq[j][field])
                 ELSE FCmp(seq[j][field], seq[i][field])
        IN  c < 0 \/ (c = 0 /\ j > i)
      Rank(i) == Cardinality({j \in 1..n : Before(j, i)})
  IN  [p \in 1..n |-> seq[CHOOSE i \in 1..n : Rank(i) = p - 1]]

\* seq.sort((a, b) => a[field] - b[field]), or b[field] - a[field] when
\* descending.  The sort is stable: elements that compare equal keep their
\* order.
SortBy(seq, field, descending) ==
  LET n == Len(seq)
      Before(j, i) ==
        LET c == IF descending THEN FCmp(seq[i][field], seq[j][field])
                 ELSE FCmp(seq[j][field], seq[i][field])
        IN  c < 0 \/ (c = 0 /\ j < i)
      Rank(i) == Cardinality({j \in 1..n : Before(j, i)})
  IN  [p \in 1..n |-> seq[CHOOSE i \in 1..n : Rank(i) = p - 1]]

\* The provider's answer h taken down
AskStep(acc, h) == [answers |-> Append(acc.answers, h.health.status), state |-> h.state]

\* What the provider answers when route asks it about each acquirer of the
\* list, and the monitor's map once every enabled acquirer has been asked.
\* Disabled acquirers are never asked about.
RECURSIVE AskHealth(_, _, _)
AskHealth(acc, acqs, i) ==
  IF i > Len(acqs) THEN acc
  ELSE IF ~acqs[i].enabled
    THEN AskHealth([acc EXCEPT !.answers = Append(@, "unasked")], acqs, i + 1)
  ELSE AskHealth(AskStep(acc, getHealth(acc.state, acqs[i].name)), acqs, i + 1)

\* Mutant: the loop of route without the skip of down acquirers
RECURSIVE ScoreLoop_NoDownSkip(_, _, _, _, _, _)
ScoreLoop_NoDownSkip(scores, answers, eng, filters, mode, i) ==
  IF i > Len(eng.acquirers) THEN scores
  ELSE IF ~eng.acquirers[i].enabled
    THEN ScoreLoop_NoDownSkip(scores, answers, eng, filters, mode, i + 1)
  ELSE ScoreLoop_NoDownSkip(Append(scores, ScoreOf(eng, filters, mode, i, answers[i])),
                            answers, eng, filters, mode, i + 1)

\* The for loop of route from acquirer i on, given the provider's answers
RECURSIVE ScoreLoop(_, _, _, _, _, _)
ScoreLoop(scores, answers, eng, filters, mode, i) ==
  IF i > Len(eng.acquirers) THEN scores
  ELSE IF ~eng.acquirers[i].enabled \/ answers[i] = "down"
    THEN ScoreLoop(scores, answers, eng, filters, mode, i + 1)
  ELSE ScoreLoop(Append(scores, ScoreOf(eng, filters, mode, i, answers[i])),
                 answers, eng, filters, mode, i + 1)

IsHealthyScore(s) == s.healthStatus = "healthy"

\* request.optimizationMode || 'balanced'
ModeOf(request) ==
  IF "optimizationMode" \in DOMAIN request THEN request.optimizationMode ELSE "balanced"

\* Mutant: the decision lists the other scored acquirers as its fallbacks
Decision_OthersAsFallback(selected, scores, request, mode) ==
  LET others == SelectSeq(scores, LAMBDA s : s.acquirer # selected.acquirer)
  IN  [selectedAcquirer |-> selected.acquirer, scores |-> scores,
       justification |->
         [text |-> "Route to", selected |-> selected.acquirer,
          selectedRate |-> selected.approvalRate,
          segmentLabel |-> request.currency \o " " \o request.cardType \o " cards",
          others |-> [k \in DOMAIN others |->
                        [rate |-> others[k].approvalRate,
                         acquirer |-> Replace(others[k].acquirer, "Acquirer ")]],
          mode |-> mode],
       optimizationMode |-> mode,
       fallbackSequence |-> [k \in DOMAIN others |-> [acquirer |-> others[k].acquirer]]]

\* The RoutingDecision returned with these scores and this selection.  The
\* justification keeps what it is built from and leaves the toFixed(0)
\* rendering of percentages out.
Decision(selected, scores, request, mode) ==
  LET others == SelectSeq(scores, LAMBDA s : s.acquirer # selected.acquirer)
  IN  [selectedAcquirer |-> selected.acquirer, scores |-> scores,
       justification |->
         [text |-> "Route to", selected |-> selected.acquirer,
          selectedRate |-> selected.approvalRate,
          segmentLabel |-> request.currency \o " " \o request.cardType \o " cards",
          others |-> [k \in DOMAIN others |->
                        [rate |-> others[k].approvalRate,
                         acquirer |-> Replace(others[k].acquirer, "Acquirer ")]],
          mode |-> mode],
       optimizationMode |-> mode, fallbackSequence |-> <<>>]

\* The cost_conscious block: resorted is the array that was sorted by approval
\* rate.  sort() reorders its receiver: the copy made by filter, or the scores
\* array itself when no score is healthy.
DecideCostConscious(sorted, cheapest, healthyScores, resorted, request, mode) ==
  Decision(IF /\ cheapest.acquirer # resorted[1].acquirer
              /\ FGe(resorted[1].approvalRate, cheapest.approvalRate)
              /\ FGt(FSub(resorted[1].approvalRate, cheapest.approvalRate),
                     COST_CONSCIOUS_APPROVAL_THRESHOLD_PP)
             THEN resorted[1] ELSE sorted[1],
           IF Len(healthyScores) = 0 THEN resorted ELSE sorted, request, mode)

DecideAmong(sorted, cheapest, healthyScores, request, mode) ==
  DecideCostConscious(sorted, cheapest, healthyScores,
                      SortBy(IF Len(healthyScores) > 0 THEN healthyScores ELSE sorted,
                             "approvalRate", TRUE),
                      request, mode)

\* route after scores.sort((a, b) => b.totalScore - a.totalScore)
DecideSorted(sorted, request, mode) ==
  IF mode = "cost_conscious" /\ Len(sorted) >= 2
    THEN DecideAmong(sorted, SortBy(sorted, "takeRate", FALSE)[1],
                     SelectSeq(sorted, IsHealthyScore), request, mode)
    ELSE Decision(sorted[1], sorted, request, mode)

\* route after its loop pushed these scores
DecideScored(pushed, request, mode) ==
  IF Len(pushed) = 0
    THEN [selectedAcquirer |-> "NONE", scores |-> <<>>,
          justification |-> [text |-> "No acquirers available"],
          optimizationMode |-> mode, fallbackSequence |-> <<>>]
    ELSE DecideSorted(SortBy(pushed, "totalScore", TRUE), request, mode)

\* The RoutingDecision route(request) returns on the engine when its provider
\* gives these answers
Decide(answers, eng, request) ==
  DecideScored(ScoreLoop(<<>>, answers, eng, FiltersOf(request), ModeOf(request), 1),
               request, ModeOf(request))

\* The answers a provider can give about the list
Answers(acqs) ==
  {h \in [DOMAIN acqs -> Status \cup {"unasked"}] :
     \A i \in DOMAIN h : (h[i] = "unasked") <=> ~acqs[i].enabled}

\* Decide for every request and every answer of the provider
DecisionTable(eng) ==
  Tabulate([request \in Requests |->
    Tabulate([h \in Answers(eng.acquirers) |-> Decide(h, eng, request)])])

RouteResult(table, request, asked) ==
  [decision |-> table[request][asked.answers], state |-> asked.state]

\* route(request) with the monitor of map st as provider: the decision
\* returned and the monitor's map afterwards
route(st, acqs, table, request) ==
  RouteResult(table, request, AskHealth([answers |-> <<>>, state |-> st], acqs, 1))

(***************************************************************************)
(* FallbackSequencer                                                       *)
(***************************************************************************)
FallbackMinRate == FLit(5, 10)

\* Mutant: the loop of getSequence without the skip of the primary
RECURSIVE CandidateLoop_KeepPrimary(_, _, _, _, _, _)
CandidateLoop_KeepPrimary(candidates, available, eng, filters, primaryAcquirer, i) ==
  IF i > Len(eng.acquirers) THEN candidates
  ELSE LET acq  == eng.acquirers[i]
           best == eng.performance[acq.name][filters]
       IN  IF ~acq.enabled \/ ~available[i] \/ ~FGe(best.approvalRate, FLit(5, 10))
             THEN CandidateLoop_KeepPrimary(candidates, available, eng, filters,
                                            primaryAcquirer, i + 1)
             ELSE CandidateLoop_KeepPrimary(
                    Append(candidates,
                           [acquirer |-> acq.name, approvalRate |-> best.approvalRate]),
                    available, eng, filters, primaryAcquirer, i + 1)

\* Mutant: the loop of getSequence without the minimum approval rate
RECURSIVE CandidateLoop_NoMinRate(_, _, _, _, _, _)
CandidateLoop_NoMinRate(candidates, available, eng, filters, primaryAcquirer, i) ==
  IF i > Len(eng.acquirers) THEN candidates
  ELSE LET acq  == eng.acquirers[i]
           best == eng.performance[acq.name][filters]
       IN  IF ~acq.enabled \/ acq.name = primaryAcquirer \/ ~available[i]
             THEN CandidateLoop_NoMinRate(candidates, available, eng, filters,
                                          primaryAcquirer, i + 1)
             ELSE CandidateLoop_NoMinRate(
                    Append(candidates,
                           [acquirer |-> acq.name, approvalRate |-> best.approvalRate]),
                    available, eng, filters, primaryAcquirer, i + 1)

\* Mutant: the loop of getSequence without the skip of disabled acquirers
RECURSIVE CandidateLoop_NoEnabledSkip(_, _, _, _, _, _)
CandidateLoop_NoEnabledSkip(candidates, available, eng, filters, primaryAcquirer, i) ==
  IF i > Len(eng.acquirers) THEN candidates
  ELSE LET acq  == eng.acquirers[i]
           best == eng.performance[acq.name][filters]
       IN  IF \/ acq.name = primaryAcquirer
              \/ ~available[i]
              \/ ~FGe(best.approvalRate, FallbackMinRate)
             THEN CandidateLoop_NoEnabledSkip(candidates, available, eng, filters,
                                              primaryAcquirer, i + 1)
             ELSE CandidateLoop_NoEnabledSkip(
                    Append(candidates,
                           [acquirer |-> acq.name, approvalRate |-> best.approvalRate]),
                    available, eng, filters, primaryAcquirer, i + 1)

\* Mutant: the answers of isAvailable are not looked at
RECURSIVE CandidateLoop_NoAvailableSkip(_, _, _, _, _, _)
CandidateLoop_NoAvailableSkip(candidates, available, eng, filters, primaryAcquirer, i) ==
  IF i > Len(eng.acquirers) THEN candidates
  ELSE LET acq  == eng.acquirers[i]
           best == eng.performance[acq.name][filters]
       IN  IF \/ ~acq.enabled
              \/ acq.name = primaryAcquirer
              \/ ~FGe(best.approvalRate, FallbackMinRate)
             THEN CandidateLoop_NoAvailableSkip(candidates, available, eng, filters,
                                                primaryAcquirer, i + 1)
             ELSE CandidateLoop_NoAvailableSkip(
                    Append(candidates,
                           [acquirer |-> acq.name, approvalRate |-> best.approvalRate]),
                    available, eng, filters, primaryAcquirer, i + 1)

\* The for loop of getSequence from acquirer i on, given what isAvailable
\* answers for each acquirer
RECURSIVE CandidateLoop(_, _, _, _, _, _)
CandidateLoop(candidates, available, eng, filters, primaryAcquirer, i) ==
  IF i > Len(eng.acquirers) THEN candidates
  ELSE LET acq  == eng.acquirers[i]
           best == eng.performance[acq.name][filters]
       IN  IF \/ ~acq.enabled
              \/ acq.name = primaryAcquirer
              \/ ~available[i]
              \/ ~FGe(best.approvalRate, FallbackMinRate)
             THEN CandidateLoop(candidates, available, eng, filters, primaryAcquirer, i + 1)
             ELSE CandidateLoop(
                    Append(candidates,
                           [acquirer |-> acq.name, approvalRate |-> best.approvalRate]),
                    available, eng, filters, primaryAcquirer, i + 1)

\* Mutant: nothing is cut off
Slice_All(seq, from, to) == seq

\* seq.slice(from, to)
Slice(seq, from, to) == SubSeq(seq, from + 1, IF to < Len(seq) THEN to ELSE Len(seq))

\* The FallbackEntry of each of the candidates kept; the reason keeps its kind
\* and the rate it quotes
Entries(top) ==
  [i \in DOMAIN top |->
    [acquirer |-> top[i].acquirer,
     expectedApprovalRate |-> top[i].approvalRate,
     reason |-> [kind |-> IF i = 1 THEN "Secondary" ELSE "Tertiary",
                 rate |-> top[i].approvalRate]]]

\* What getSequence(request, primaryAcquirer) returns given the checker's
\* answers
Sequence(available, eng, request, primaryAcquirer) ==
  Entries(Slice(SortBy(CandidateLoop(<<>>, available, eng, FiltersOf(request),
                                     primaryAcquirer, 1),
                       "approvalRate", TRUE), 0, 3))

Primaries(acqs) == NamesOf(acqs) \cup {"NONE"}

\* Sequence for every request shape, primary and answers of the checker
SequenceTable(eng) ==
  Tabulate([request \in Shapes |->
    Tabulate([primaryAcquirer \in Primaries(eng.acquirers) |->
      Tabulate([available \in [DOMAIN eng.acquirers -> BOOLEAN] |->
        Sequence(available, eng, request, primaryAcquirer)])])])

\* getSequence(request, primaryAcquirer) with the monitor of map st as checker
getSequence(st, acqs, table, request, primaryAcquirer) ==
  table[request][primaryAcquirer][[i \in DOMAIN acqs |-> isAvailable(st, acqs[i].name)]]

\* The engine and the sequencer of every deployment, with what they return
Deployed(eng) ==
  [decisions |-> DecisionTable(eng), sequences |-> SequenceTable(eng)]

Deployments ==
  Tabulate([w \in Worlds |-> Deployed(Engine(Configs[w[1]], Resolved[w[2]]))])

(***************************************************************************)
(* Spec: a deployment whose engine and sequencer share one HealthMonitor,  *)
(* as in the tests and in index.ts; outcomes are recorded and requests are *)
(* routed in any order.                                                    *)
(***************************************************************************)
RECURSIVE SumLen(_, _)
SumLen(h, S) ==
  IF S = {} THEN 0
  ELSE LET a == CHOOSE x \in S : TRUE IN Len(h[a]) + SumLen(h, S \ {a})

Recorded == SumLen(hist, AcquirerIds)

RoutingOutcome == {"approved", "error"}

Names == NamesOf(acquirers)

Init ==
  /\ state = [a \in AcquirerIds |-> NoState]
  /\ hist = [a \in AcquirerIds |-> <<>>]
  /\ op = [name |-> "init"]
  /\ result = NoResult
  /\ \E w \in Worlds : config = w[1] /\ data = w[2]

Record ==
  \E a \in Names, o \in RoutingOutcome :
    /\ Recorded < MaxRecorded
    /\ RecordOutcome(a, o)

\* route(request) returned r
RouteReturns(r, request) ==
  /\ state' = r.state
  /\ result' = r.decision
  /\ op' = [name |-> "route", request |-> request]
  /\ UNCHANGED <<hist, config, data>>

Route ==
  \E request \in Requests :
    RouteReturns(route(state, acquirers, Deployments[<<config, data>>].decisions, request),
                 request)

GetSequence ==
  \E request \in Shapes, primaryAcquirer \in Primaries(acquirers) :
    /\ result' = getSequence(state, acquirers, Deployments[<<config, data>>].sequences,
                             request, primaryAcquirer)
    /\ op' = [name |-> "getSequence", request |-> request,
              primaryAcquirer |-> primaryAcquirer]
    /\ UNCHANGED <<state, hist, config, data>>

\* getHealthStatus of services/routing-engine.ts.  The probe looks for a
\* getStatus method on the healthMonitor the module exports; HealthMonitor has
\* recordOutcome, getHealth, getAllHealth, isAvailable and
\* initializeFromHistory, so getHealthStatus is defaultHealthStatus, whatever
\* the monitor's map st holds.
getHealthStatus(st, acquirer) ==
  [acquirer |-> acquirer, status |-> "healthy", consecutiveFailures |-> 0,
   metrics |-> [successRate |-> FFromInt(1), errorRate |-> FZero,
                timeoutRate |-> FZero, totalProcessed |-> 0],
   lastUpdated |-> [taken |-> "defaultHealthStatus"]]

\* route(request) of the RoutingEngine of services/routing-engine.ts, which
\* works on the list of config/acquirers.ts.  With every acquirer enabled and
\* answered for as healthy, its loop, sort and override select as those of
\* the injected engine do; it lists the other scores as fallbacks.
LegacyRoute ==
  /\ config = 1
  /\ \E answers \in {[i \in DOMAIN acquirers |->
                        getHealthStatus(state, acquirers[i].name).status]} :
       \E request \in Requests :
         \E d \in {Deployments[<<config, data>>].decisions[request][answers]} :
           \E others \in {SelectSeq(d.scores, LAMBDA s : s.acquirer # d.selectedAcquirer)} :
             /\ result' =
                  [selectedAcquirer |-> d.selectedAcquirer, scores |-> d.scores,
                   justification |-> d.justification,
                   optimizationMode |-> d.optimizationMode,
                   fallbackSequence |->
                     [k \in DOMAIN others |->
                        [acquirer |-> others[k].acquirer,
                         expectedApprovalRate |-> others[k].approvalRate,
                         reason |-> [kind |-> "Fallback",
                                     rate |-> others[k].approvalRate,
                                     health |-> others[k].healthStatus,
                                     takeRate |-> others[k].takeRate]]]]
             /\ op' = [name |-> "legacyRoute", request |-> request]
  /\ UNCHANGED <<state, hist, config, data>>

Next == Record \/ Route \/ GetSequence \/ LegacyRoute

Spec == Init /\ [][Next]_vars

(***************************************************************************)
(* SpecServer: the server of index.ts.  One HealthMonitor is initialised   *)
(* from the historical data and shared by the engine, the sequencer and    *)
(* the health router; after the start nothing records an outcome.  The     *)
(* records the monitor replays are drawn apart from the data set the       *)
(* analyzer was built on: of a record the monitor reads the timestamp, the *)
(* acquirer and the outcome only.                                          *)
(***************************************************************************)
MaxFeed == 2

\* new Date(timestamp).getTime() of the timestamps of the records, in
\* milliseconds from 2024-01-01T00:00:00Z; the first two name one instant
getTime ==
  [timestamp \in {"2024-01-01T00:00:00.000Z", "2024-01-01T01:00:00.000+01:00",
                  "2024-01-01T00:00:01.000Z"} |->
     IF timestamp = "2024-01-01T00:00:01.000Z" THEN 1000 ELSE 0]

\* Mutant: the records are replayed as they come
sortByTimestamp_Unsorted(transactions) == transactions

\* [...transactions].sort((a, b) => getTime(a) - getTime(b)): a sorted copy,
\* ascending; the sort is stable
sortByTimestamp(transactions) ==
  LET n == Len(transactions)
      Before(j, i) ==
        \/ getTime[transactions[j].timestamp] < getTime[transactions[i].timestamp]
        \/ /\ getTime[transactions[j].timestamp] = getTime[transactions[i].timestamp]
           /\ j < i
      Rank(i) == Cardinality({j \in 1..n : Before(j, i)})
  IN  [p \in 1..n |-> transactions[CHOOSE i \in 1..n : Rank(i) = p - 1]]

\* for (const txn of sorted) this.recordOutcome(txn.acquirer, txn.outcome)
RECURSIVE replay(_, _, _)
replay(st, sorted, i) ==
  IF i > Len(sorted) THEN st
  ELSE replay(recordOutcome(st, sorted[i].acquirer, sorted[i].outcome), sorted, i + 1)

\* initializeFromHistory(transactions): the monitor's map afterwards, and the
\* caller's array, which the call has not touched
initializeFromHistory(st, transactions) ==
  [state |-> replay(st, sortByTimestamp(transactions), 1),
   transactions |-> transactions]

\* getAllHealth(): getHealth of every key of the map, and the map afterwards
RECURSIVE getAllHealth(_, _)
getAllHealth(acc, keys) ==
  IF keys = {} THEN acc
  ELSE LET acquirer == CHOOSE a \in keys : TRUE
           h == getHealth(acc.state, acquirer)
       IN  getAllHealth([result |-> acc.result @@ (acquirer :> h.health),
                         state |-> h.state],
                        keys \ {acquirer})

\* The historical data sets, as far as the monitor reads their records
Feeds ==
  UNION {[1..n -> [timestamp : DOMAIN getTime, acquirer : {"A", "Acquirer D"},
                   outcome : RoutingOutcome]] : n \in 0..MaxFeed}

\* The outcomes recordOutcome was called with, per acquirer, once the
\* records of sorted have been replayed
RECURSIVE Logged(_, _, _)
Logged(h, sorted, i) ==
  IF i > Len(sorted) THEN h
  ELSE Logged([h EXCEPT ![sorted[i].acquirer] = Append(@, sorted[i].outcome)],
              sorted, i + 1)

\* healthMonitor.initializeFromHistory(historicalData), before app.listen
InitializeFromHistory ==
  /\ op.name = "init"
  /\ \E transactions \in Feeds :
       \E r \in {initializeFromHistory(state, transactions)} :
         /\ state' = r.state
         /\ hist' = Logged(hist, sortByTimestamp(transactions), 1)
         /\ op' = [name |-> "initializeFromHistory", transactions |-> transactions,
                   after |-> r.transactions]
         /\ result' = NoResult
         /\ UNCHANGED <<config, data>>

\* POST /api/route with a valid request, once the server listens: route,
\* then getSequence with the acquirer route selected
PostRoute ==
  /\ op.name # "init"
  /\ \E request \in Requests :
       \E r \in {route(state, acquirers, Deployments[<<config, data>>].decisions,
                       request)} :
         /\ result' =
              [selectedAcquirer |-> r.decision.selectedAcquirer,
               scores |-> r.decision.scores,
               justification |-> r.decision.justification,
               optimizationMode |-> r.decision.optimizationMode,
               fallbackSequence |->
                 getSequence(r.state, acquirers, Deployments[<<config, data>>].sequences,
                             FiltersOf(request), r.decision.selectedAcquirer)]
         /\ state' = r.state
         /\ op' = [name |-> "postRoute", request |-> request]
         /\ UNCHANGED <<hist, config, data>>

\* GET /api/health/:acquirer
GetHealth ==
  /\ op.name # "init"
  /\ \E acquirer \in AcquirerIds :
       \E h \in {getHealth(state, acquirer)} :
         /\ result' = h.health
         /\ state' = h.state
         /\ op' = [name |-> "getHealth", acquirer |-> acquirer]
         /\ UNCHANGED <<hist, config, data>>

\* GET /api/health
GetAllHealth ==
  /\ op.name # "init"
  /\ \E all \in {getAllHealth([result |-> <<>>, state |-> state],
                              {a \in DOMAIN state : state[a] # NoState})} :
       /\ result' = all.result
       /\ state' = all.state
       /\ op' = [name |-> "getAllHealth"]
       /\ UNCHANGED <<hist, config, data>>

NextServer == InitializeFromHistory \/ PostRoute \/ GetHealth \/ GetAllHealth

SpecServer == Init /\ [][NextServer]_vars

(***************************************************************************)
(* SpecSteps: recordOutcome statement by statement, on one acquirer, with  *)
(* the reads of the monitor as calls of their own.  op.at is the statement *)
(* at which the running recordOutcome stands.  The methods of the monitor  *)
(* are synchronous and the server runs on one thread, each call to its     *)
(* return: a call starts only when no other call is running.               *)
(***************************************************************************)
MaxSteps == 3

\* Mutant: a call can start while recordOutcome is running
Idle_Anytime(running) == TRUE

\* No call of the monitor is running
Idle(running) ==
  IF running.name = "recordOutcome" THEN running.at = "returned" ELSE TRUE

RecordStep ==
  \/ \E outcome \in Outcome :
       /\ Idle(op)
       /\ TotalProcessed(Observed) < MaxSteps
       /\ state' = [getOrCreateState(state, Observed) EXCEPT
                      ![Observed].recentOutcomes = PushOutcome(@, outcome)]
       /\ hist' = [hist EXCEPT ![Observed] = Append(@, outcome)]
       /\ op' = [name |-> "recordOutcome", acquirer |-> Observed, outcome |-> outcome,
                 at |-> "counters"]
       /\ UNCHANGED <<result, config, data>>
  \/ /\ op.name = "recordOutcome" /\ op.at = "counters"
     /\ state' = [state EXCEPT
                    ![Observed].consecutiveFailures =
                       IF isFailure(op.outcome) THEN @ + 1
                       ELSE IF isSuccess(op.outcome) THEN 0 ELSE @,
                    ![Observed].consecutiveSuccesses =
                       IF isFailure(op.outcome) THEN 0
                       ELSE IF isSuccess(op.outcome) THEN @ + 1 ELSE @]
     /\ op' = [op EXCEPT !.at = "totalProcessed"]
     /\ UNCHANGED <<hist, result, config, data>>
  \/ /\ op.name = "recordOutcome" /\ op.at = "totalProcessed"
     /\ state' = [state EXCEPT
                    ![Observed].totalProcessed = @ + 1,
                    ![Observed].lastUpdated =
                       [taken |-> "recordOutcome",
                        call |-> state[Observed].totalProcessed + 1]]
     /\ op' = [op EXCEPT !.at = "updateStatus"]
     /\ UNCHANGED <<hist, result, config, data>>
  \/ /\ op.name = "recordOutcome" /\ op.at = "updateStatus"
     /\ state' = [state EXCEPT ![Observed].status = updateStatus(state[Observed])]
     /\ op' = [op EXCEPT !.at = "returned"]
     /\ result' = NoResult
     /\ UNCHANGED <<hist, config, data>>

\* getHealth(acquirer) and isAvailable(acquirer), called by the engine, the
\* sequencer or the health router
Observe ==
  \E acquirer \in {Observed, "A"} :
    /\ Idle(op)
    /\ \/ \E h \in {getHealth(state, acquirer)} :
            /\ result' = h.health
            /\ state' = h.state
            /\ op' = [name |-> "getHealth", acquirer |-> acquirer]
       \/ /\ result' = isAvailable(state, acquirer)
          /\ op' = [name |-> "isAvailable", acquirer |-> acquirer]
          /\ UNCHANGED state
    /\ UNCHANGED <<hist, config, data>>

NextSteps == RecordStep \/ Observe

SpecSteps == InitMonitor /\ [][NextSteps]_vars

(***************************************************************************)
(* Claims about the health monitor                                         *)
(***************************************************************************)
Min(x, y) == IF x <= y THEN x ELSE y

StatusOf(st, a) == IF st[a] = NoState THEN "healthy" ELSE st[a].status

Failures(s) == CountOf(s.recentOutcomes, {"error", "timeout"})
Successes(s) == CountOf(s.recentOutcomes, {"approved", "declined"})

\* The window's fail rate, resp. success rate, exceeds num/den (exactly)
FailRateAbove(s, num, den) == Failures(s) * den > num * Len(s.recentOutcomes)
SuccessRateAbove(s, num, den) == Successes(s) * den > num * Len(s.recentOutcomes)

\* The guard of the edge from -> to of the transition table, on the state s
\* as it is after the outcome was appended
EdgeGuard(from, to, s) ==
  CASE from = "healthy" /\ to = "down" -> s.consecutiveFailures >= 5
    [] from = "healthy" /\ to = "degraded" ->
         s.consecutiveFailures < 5 /\ FailRateAbove(s, 30, 100)
    [] from = "degraded" /\ to = "down" ->
         s.consecutiveFailures >= 5 \/ FailRateAbove(s, 50, 100)
    [] from = "degraded" /\ to = "healthy" ->
         SuccessRateAbove(s, 80, 100) /\ s.consecutiveFailures = 0
    [] from = "down" /\ to = "degraded" -> s.consecutiveSuccesses >= 3
    [] OTHER -> FALSE

\* C1: every recordOutcome call changes the status only along an edge of the
\* transition table (healthy->down, healthy->degraded, degraded->down,
\* degraded->healthy, down->degraded; never down->healthy) and only when
\* that edge's guard holds on the window and counters as they are after the
\* outcome was appended; healthy->down has priority over healthy->degraded.
C1_TransitionTable ==
  [][op'.name = "recordOutcome" =>
       LET a    == op'.acquirer
           prev == StatusOf(state, a)
           s    == state'[a]
       IN  /\ s.status \in Status
           /\ s.status # prev => EdgeGuard(prev, s.status, s)
           /\ (prev = "healthy" /\ s.consecutiveFailures >= 5) => s.status = "down"]_vars

\* C2: an acquirer's window is exactly the last min(20, n) of the n outcomes
\* recorded for it, in arrival order; its length is min(20, totalProcessed).
C2_WindowIsLastOutcomes ==
  \A a \in AcquirerIds :
    state[a] # NoState =>
      LET h == hist[a]
          n == Len(h)
          k == Min(20, n)
          w == state[a].recentOutcomes
      IN  /\ w = SubSeq(h, n - k + 1, n)
          /\ Len(w) <= 20
          /\ state[a].totalProcessed = n
          /\ Len(w) = Min(20, state[a].totalProcessed)

\* More than 20 outcomes were recorded and the oldest one, which differs
\* from the oldest of the window, was evicted
C2_Witness ==
  /\ op.name = "recordOutcome"
  /\ state[op.acquirer].totalProcessed > 20
  /\ hist[op.acquirer][1] # state[op.acquirer].recentOutcomes[1]

\* The number of outcomes at the head of h that are failures
RECURSIVE LeadingFailures(_)
LeadingFailures(h) ==
  IF h = <<>> \/ ~isFailure(Head(h)) THEN 0 ELSE 1 + LeadingFailures(Tail(h))

OnlySuccesses(h, from) == \A i \in from..Len(h) : isSuccess(h[i])

\* C12: from whatever state the acquirer was in, when consecutiveFailures is
\* at least 5 after a recordOutcome call, its status is down and isAvailable
\* returns false.
C12_FiveFailuresDown ==
  op.name = "recordOutcome" =>
    (state[op.acquirer].consecutiveFailures >= 5 =>
       /\ state[op.acquirer].status = "down"
       /\ ~isAvailable(state, op.acquirer))

\* The fifth failure in a row arrives in a window of 20 with no other
\* failure: the fail rate, 0.25, would leave the acquirer healthy
C12_Witness ==
  /\ op.name = "recordOutcome"
  /\ state[op.acquirer].consecutiveFailures = 5
  /\ Failures(state[op.acquirer]) = 5
  /\ Len(state[op.acquirer].recentOutcomes) = 20
  /\ state[op.acquirer].status = "down"
  /\ ~isAvailable(state, op.acquirer)

\* C13: a fresh acquirer driven down by k >= 5 failures in a row and then
\* fed successes is still down after the first and after the second success
\* and is degraded, not healthy, right after the third.
C13_RecoveryAfterThree ==
  LET h == hist[Observed]
      k == LeadingFailures(h)
      j == Len(h) - k
  IN  (k >= 5 /\ OnlySuccesses(h, k + 1)) =>
        /\ j \in 0..2 => state[Observed].status = "down"
        /\ j = 3 => state[Observed].status = "degraded"

\* Failures of both kinds, five or more, then the third success
C13_Witness ==
  /\ op.name = "recordOutcome"
  /\ LeadingFailures(hist[Observed]) >= 5
  /\ Len(hist[Observed]) = LeadingFailures(hist[Observed]) + 3
  /\ OnlySuccesses(hist[Observed], LeadingFailures(hist[Observed]) + 1)
  /\ {"error", "timeout"} \subseteq {hist[Observed][i] : i \in DOMAIN hist[Observed]}
  /\ state[Observed].status = "degraded"
  /\ state[Observed].consecutiveSuccesses = 3

\* C14: on a fresh acquirer, after every call of a sequence of approved and
\* declined outcomes only, the status is healthy and isAvailable returns
\* true.
C14_SuccessesStayHealthy ==
  (hist[Observed] # <<>> /\ OnlySuccesses(hist[Observed], 1)) =>
    /\ state[Observed].status = "healthy"
    /\ isAvailable(state, Observed)

\* More declines than the window holds, after approvals
C14_Witness ==
  /\ op.name = "recordOutcome"
  /\ OnlySuccesses(hist[Observed], 1)
  /\ Len(hist[Observed]) > 20
  /\ CountOf(state[Observed].recentOutcomes, {"declined"}) = 20
  /\ hist[Observed][1] = "approved"
  /\ state[Observed].status = "healthy"
  /\ isAvailable(state, Observed)

(***************************************************************************)
(* Claims about the routing engine                                         *)
(***************************************************************************)
Routed == op.name = "route"

ScoreSet == {result.scores[i] : i \in DOMAIN result.scores}

EnabledNames == {acquirers[i].name : i \in {j \in DOMAIN acquirers : acquirers[j].enabled}}

\* C3: an acquirer the provider reports as down at the time of route() is
\* neither in the scores of the decision nor its selected acquirer.
C3_DownNeverRouted ==
  Routed =>
    \A a \in AcquirerIds :
      StatusOf(state, a) = "down" =>
        /\ result.selectedAcquirer # a
        /\ \A s \in ScoreSet : s.acquirer # a

\* route() ran with an enabled acquirer down and another one scored
C3_Witness ==
  /\ Routed
  /\ \E a \in EnabledNames : StatusOf(state, a) = "down"
  /\ result.selectedAcquirer \in EnabledNames

\* C4: the scores of every decision are in descending order of totalScore.
C4_ScoresSortedByTotal ==
  Routed =>
    \A i \in 1..(Len(result.scores) - 1) :
      FGe(result.scores[i].totalScore, result.scores[i + 1].totalScore)

\* Exact rationals [n, d] with d > 0, for approval rates as the ratios and
\* weighted averages they stand for
RECURSIVE Gcd(_, _)
Gcd(a, b) == IF b = 0 THEN a ELSE Gcd(b, a % b)

Rat(n, d) == LET g == Gcd(n, d) IN [n |-> n \div g, d |-> d \div g]

RatAdd(x, y) == Rat(x.n * y.d + y.n * x.d, x.d * y.d)

\* x - y > p / q
RatExceedsBy(x, y, p, q) == (x.n * y.d - y.n * x.d) * q > p * x.d * y.d

RatGe(x, y) == x.n * y.d >= y.n * x.d

RECURSIVE ExactWeightedSum(_, _, _)
ExactWeightedSum(segs, kept, i) ==
  IF i = 0 THEN Rat(0, 1)
  ELSE RatAdd(ExactWeightedSum(segs, kept, i - 1),
              Rat(kept[i].weight * segs[kept[i].key].approved, segs[kept[i].key].total))

RECURSIVE TotalWeight(_, _)
TotalWeight(kept, i) == IF i = 0 THEN 0 ELSE TotalWeight(kept, i - 1) + kept[i].weight

\* The weighted average getApprovalRate computes in binary64, as a rational
ExactApprovalRate(segs, acquirer, filters) ==
  LET kept == KeptKeys(segs, acquirer, filters)
  IN  IF Len(kept) = 0 THEN Rat(0, 1)
      ELSE LET sum == ExactWeightedSum(segs, kept, Len(kept))
           IN  Rat(sum.n, sum.d * TotalWeight(kept, Len(kept)))

\* The exact approval rate of the performance resolvePerformance picks
ExactRates ==
  Tabulate([d \in DOMAIN Histories |->
    Tabulate([name \in ConfiguredNames |->
      Tabulate([f \in {FiltersOf(sh) : sh \in Shapes} |->
        LET picked == Resolved[d][name][f].acquirer
        IN  ExactApprovalRate(Segments[d], picked, f)])])])

ExactRateOf(s) == ExactRates[data][s.acquirer][FiltersOf(op.request)]

TopScored == {s \in ScoreSet : \A t \in ScoreSet : FGe(s.totalScore, t.totalScore)}

Cheapest == {s \in ScoreSet : \A t \in ScoreSet : FGe(t.takeRate, s.takeRate)}

\* The eligible acquirers the best approval rate is looked for in
ApprovalPool ==
  IF \E s \in ScoreSet : s.healthStatus = "healthy"
    THEN {s \in ScoreSet : s.healthStatus = "healthy"}
    ELSE ScoreSet

BestApproval ==
  {s \in ApprovalPool : \A t \in ApprovalPool : RatGe(ExactRateOf(s), ExactRateOf(t))}

\* The best-approval acquirer is not the cheapest one and its approval rate is
\* more than 0.05 above the cheapest's
OverrideDue ==
  \E b \in BestApproval, c \in Cheapest :
    /\ b.acquirer # c.acquirer
    /\ RatExceedsBy(ExactRateOf(b), ExactRateOf(c), 5, 100)

\* C5: in cost_conscious mode the best-approval acquirer takes the place of
\* the top-scored one exactly when it is not the cheapest eligible acquirer
\* and its approval rate is more than 0.05 above the cheapest's; in the other
\* modes the top-scored acquirer is always the one selected.
C5_OverrideIff ==
  Routed /\ result.scores # <<>> =>
    IF result.optimizationMode = "cost_conscious" /\ OverrideDue
      THEN result.selectedAcquirer \in {s.acquirer : s \in BestApproval}
      ELSE result.selectedAcquirer \in {s.acquirer : s \in TopScored}

RequestedMode ==
  IF "optimizationMode" \in DOMAIN op.request THEN op.request.optimizationMode
  ELSE "balanced"

NoneEligible ==
  \A i \in DOMAIN acquirers :
    ~acquirers[i].enabled \/ StatusOf(state, acquirers[i].name) = "down"

\* C6: when every configured acquirer is disabled or down, route() returns
\* the decision with selectedAcquirer "NONE", no scores, no fallback, the
\* justification that no acquirers are available and the requested mode
\* (balanced when the request names none).
C6_NoneSentinel ==
  Routed /\ NoneEligible =>
    /\ DOMAIN result = {"selectedAcquirer", "scores", "justification",
                        "optimizationMode", "fallbackSequence"}
    /\ result.selectedAcquirer = "NONE"
    /\ result.scores = <<>>
    /\ result.fallbackSequence = <<>>
    /\ result.justification = [text |-> "No acquirers available"]
    /\ result.optimizationMode = RequestedMode

\* route() ran without a mode in the request, one acquirer down and the
\* others disabled
C6_Witness ==
  /\ Routed
  /\ NoneEligible
  /\ \E a \in EnabledNames : StatusOf(state, a) = "down"
  /\ \E i \in DOMAIN acquirers : ~acquirers[i].enabled
  /\ "optimizationMode" \notin DOMAIN op.request

\* C21: in cost_conscious mode route() never selects the cheapest eligible
\* acquirer when another eligible acquirer, healthy or degraded, has an
\* approval rate more than 0.05 above the cheapest's.
C21_CheapestNotSelectedWhenBeaten ==
  (Routed /\ result.scores # <<>> /\ result.optimizationMode = "cost_conscious") =>
    \A c \in Cheapest :
      (\E s \in ScoreSet :
         /\ s.acquirer # c.acquirer
         /\ RatExceedsBy(ExactRateOf(s), ExactRateOf(c), 5, 100))
      => result.selectedAcquirer # c.acquirer

\* C22: with the reference configuration (take rates 2.8, 3.1, 2.1, all
\* enabled), in cost_conscious mode, whatever the approval rates and the
\* statuses other than down: when the approval rate of the cheapest eligible
\* acquirer is within 0.05 of the best eligible approval rate, the override
\* does not fire and the cheapest eligible acquirer is the one selected.
C22_CheapestSelectedWithinThreshold ==
  (Routed /\ config = 1 /\ result.scores # <<>>
     /\ result.optimizationMode = "cost_conscious") =>
    \A c \in Cheapest :
      (\A s \in ScoreSet : ~RatExceedsBy(ExactRateOf(s), ExactRateOf(c), 5, 100))
      => result.selectedAcquirer = c.acquirer

\* C23: in balanced mode, which is also the mode of a request that names
\* none, and in maximize_approvals mode, when at least one acquirer is
\* eligible, the selected acquirer is that of scores[0], and the totalScore of
\* scores[0] is the greatest of the scores.
C23_TopScoreSelected ==
  (Routed /\ result.scores # <<>>
     /\ RequestedMode \in {"balanced", "maximize_approvals"}) =>
    /\ result.optimizationMode = RequestedMode
    /\ result.selectedAcquirer = result.scores[1].acquirer
    /\ \A s \in ScoreSet : FGe(result.scores[1].totalScore, s.totalScore)

\* A request without a mode; the acquirer selected has a greater score than
\* one configured before it
C23_Witness ==
  /\ Routed
  /\ "optimizationMode" \notin DOMAIN op.request
  /\ Len(result.scores) >= 2
  /\ result.selectedAcquirer = result.scores[1].acquirer
  /\ \E i, j \in DOMAIN acquirers :
       /\ i < j
       /\ acquirers[j].name = result.selectedAcquirer
       /\ \E s \in ScoreSet :
            /\ s.acquirer = acquirers[i].name
            /\ FGt(result.scores[1].totalScore, s.totalScore)

\* The weights of the modes, as decimal fractions in hundredths
WeightsOf(mode) ==
  CASE mode = "maximize_approvals" -> <<80, 15, 5>>
    [] mode = "balanced" -> <<60, 25, 15>>
    [] mode = "cost_conscious" -> <<40, 20, 40>>

\* The greatest take rate of the configured list, disabled entries included
GreatestTakeRate ==
  LET rates == {acquirers[i].takeRate : i \in DOMAIN acquirers}
  IN  CHOOSE m \in rates : \A t \in rates : FGe(m, t)

\* C24: for every eligible acquirer totalScore is
\* wApproval * approvalRate + wHealth * healthScore + wCost * costScore,
\* computed in binary64 in that order, with the weights (0.80, 0.15, 0.05) for
\* maximize_approvals, (0.60, 0.25, 0.15) for balanced, (0.40, 0.20, 0.40) for
\* cost_conscious, and balanced for a request without a mode; healthScore is
\* 1.0 for healthy and 0.3 for degraded; costScore is
\* 1 - takeRate / maxTakeRate, the maximum being that of all configured
\* acquirers, disabled ones included, and 0 when that maximum is 0.
C24_TotalScoreFormula ==
  Routed =>
    \A s \in ScoreSet :
      LET w == WeightsOf(RequestedMode)
      IN  /\ s.totalScore =
               FAdd(FAdd(FMul(FLit(w[1], 100), s.approvalRate),
                         FMul(FLit(w[2], 100), s.healthScore)),
                    FMul(FLit(w[3], 100), s.costScore))
          /\ s.approvalRateScore = s.approvalRate
          /\ s.healthStatus \in {"healthy", "degraded"}
          /\ s.healthScore = IF s.healthStatus = "healthy" THEN FFromInt(1) ELSE FLit(3, 10)
          /\ s.healthStatus = StatusOf(state, s.acquirer)
          /\ s.costScore =
               IF GreatestTakeRate = FZero THEN FZero
               ELSE FSub(FFromInt(1), FDiv(s.takeRate, GreatestTakeRate))
          /\ \E i \in DOMAIN acquirers :
               acquirers[i].name = s.acquirer /\ acquirers[i].takeRate = s.takeRate

\* A degraded acquirer is scored in cost_conscious mode while the acquirer of
\* the greatest take rate is disabled
C24_Witness ==
  /\ Routed
  /\ RequestedMode = "cost_conscious"
  /\ \E s \in ScoreSet : s.healthStatus = "degraded" /\ s.healthScore = FLit(3, 10)
  /\ \E i \in DOMAIN acquirers :
       ~acquirers[i].enabled /\ acquirers[i].takeRate = GreatestTakeRate
  /\ \A s \in ScoreSet : FGt(s.costScore, FZero)

\* What route(request) returns on the monitor's map st, and the map afterwards
RouteOn(st, request) ==
  route(st, acquirers, Deployments[<<config, data>>].decisions, request)

Sequenced == op.name = "getSequence"

Returned == {result[i].acquirer : i \in DOMAIN result}

ResolvedRate(a) == Resolved[data][a][FiltersOf(op.request)].approvalRate

\* The enabled acquirers other than the primary that are available and reach
\* the minimum approval rate for the request
Survivors ==
  {a \in EnabledNames :
     /\ a # op.primaryAcquirer
     /\ StatusOf(state, a) # "down"
     /\ FGe(ResolvedRate(a), FLit(5, 10))}

\* C7: the list getSequence returns never contains the primary acquirer.
C7_PrimaryExcluded ==
  Sequenced => op.primaryAcquirer \notin Returned

\* getSequence ran for a primary that is enabled, available and above the
\* minimum rate, and returned other acquirers
C7_Witness ==
  /\ Sequenced
  /\ op.primaryAcquirer \in EnabledNames
  /\ StatusOf(state, op.primaryAcquirer) # "down"
  /\ FGe(ResolvedRate(op.primaryAcquirer), FLit(5, 10))
  /\ result # <<>>

\* C8: after any recorded outcomes, getSequence returns no acquirer whose
\* status in the monitor is down.
C8_DownExcluded ==
  Sequenced => \A a \in Returned : StatusOf(state, a) # "down" /\ isAvailable(state, a)

\* getSequence ran while an enabled acquirer other than the primary, above
\* the minimum rate, was down, and returned other acquirers
C8_Witness ==
  /\ Sequenced
  /\ \E a \in EnabledNames :
       /\ a # op.primaryAcquirer
       /\ StatusOf(state, a) = "down"
       /\ FGe(ResolvedRate(a), FLit(5, 10))
  /\ result # <<>>

\* C9: every entry getSequence returns has expectedApprovalRate >= 0.50, and
\* no acquirer whose resolved approval rate is below 0.50 is returned.
C9_MinimumRate ==
  Sequenced =>
    /\ \A i \in DOMAIN result : FGe(result[i].expectedApprovalRate, FLit(5, 10))
    /\ \A a \in Returned : ~FLt(ResolvedRate(a), FLit(5, 10))

\* getSequence ran while an available enabled acquirer other than the primary
\* had a rate above 0 and below 0.50, and returned an entry at exactly 0.50
C9_Witness ==
  /\ Sequenced
  /\ \E a \in EnabledNames :
       /\ a # op.primaryAcquirer
       /\ StatusOf(state, a) # "down"
       /\ FGt(ResolvedRate(a), FZero)
       /\ FLt(ResolvedRate(a), FLit(5, 10))
  /\ \E i \in DOMAIN result : FEq(result[i].expectedApprovalRate, FLit(5, 10))

\* C10: getSequence returns min(3, k) of the k surviving candidates, each
\* once and with its resolved rate, in non-increasing order of rate, and no
\* survivor left out has a higher rate than one returned.
C10_TopThreeSorted ==
  Sequenced =>
    /\ Len(result) = Min(3, Cardinality(Survivors))
    /\ Len(result) <= 3
    /\ Returned \subseteq Survivors
    /\ \A i, j \in DOMAIN result : i # j => result[i].acquirer # result[j].acquirer
    /\ \A i \in DOMAIN result :
         FEq(result[i].expectedApprovalRate, ResolvedRate(result[i].acquirer))
    /\ \A i \in 1..(Len(result) - 1) :
         FGe(result[i].expectedApprovalRate, result[i + 1].expectedApprovalRate)
    /\ \A a \in Survivors \ Returned :
         \A i \in DOMAIN result : ~FGt(ResolvedRate(a), result[i].expectedApprovalRate)

\* getSequence ran with four survivors, two of them at the same rate, and
\* returned three
C10_Witness ==
  /\ Sequenced
  /\ Cardinality(Survivors) = 4
  /\ Len(result) = 3
  /\ \E i \in 1..2 : FEq(result[i].expectedApprovalRate, result[i + 1].expectedApprovalRate)

(***************************************************************************)
(* Claims about the monitor as the server uses it                          *)
(***************************************************************************)
Posted == op.name = "postRoute"

\* The identifier the historical data uses for the configured acquirer
ShortForm(name) == Replace(name, "Acquirer ")

FallbackNames == {result.fallbackSequence[i].acquirer : i \in DOMAIN result.fallbackSequence}

\* C11: in the wiring of index.ts, where the history names acquirers by their
\* short form, an acquirer that the outcomes recorded under its short form
\* have driven down is neither scored nor selected by route(), nor listed in
\* the fallback sequence of getSequence().
C11_ShortFormDownExcluded ==
  Posted =>
    \A name \in Names :
      (ShortForm(name) \in DOMAIN state /\ StatusOf(state, ShortForm(name)) = "down") =>
        /\ result.selectedAcquirer # name
        /\ \A s \in ScoreSet : s.acquirer # name
        /\ name \notin FallbackNames

\* The acquirers recordOutcome has been called for
Recorders == {a \in AcquirerIds : hist[a] # <<>>}

\* C16: an acquirer gets its entry in the monitor with its first recorded
\* outcome only: getHealth, isAvailable, getAllHealth, route and getSequence
\* add none, and getAllHealth reports exactly the acquirers recordOutcome
\* has been called for.
C16_ReadsCreateNothing ==
  /\ {a \in AcquirerIds : state[a] # NoState} = Recorders
  /\ op.name = "getAllHealth" => DOMAIN result = Recorders

\* C17: isAvailable(a) is false exactly when getHealth(a) reports the status
\* down; it is true for healthy and degraded acquirers and for acquirers the
\* monitor has never heard of.
C17_AvailableUnlessDown ==
  \A a \in AcquirerIds :
    /\ ~isAvailable(state, a) <=> getHealth(state, a).health.status = "down"
    /\ getHealth(state, a).health.status \in {"healthy", "degraded"} => isAvailable(state, a)
    /\ state[a] = NoState => isAvailable(state, a)

\* The acquirer observed has gone down and is not available, while an
\* acquirer never heard of is
C17_Witness ==
  /\ op.name = "recordOutcome"
  /\ getHealth(state, op.acquirer).health.status = "down"
  /\ ~isAvailable(state, op.acquirer)
  /\ \E a \in AcquirerIds : state[a] = NoState /\ isAvailable(state, a)

\* C19: for an acquirer no outcome was ever recorded for, getHealth returns
\* the status healthy, consecutiveFailures 0, totalProcessed 0 and a
\* successRate, an errorRate and a timeoutRate of 0.
C19_UnknownAcquirerZeroRates ==
  (op.name = "getHealth" /\ hist[op.acquirer] = <<>>) =>
    /\ result.status = "healthy"
    /\ result.consecutiveFailures = 0
    /\ result.metrics.totalProcessed = 0
    /\ result.metrics.successRate = FZero
    /\ result.metrics.errorRate = FZero
    /\ result.metrics.timeoutRate = FZero

Fresh == [a \in AcquirerIds |-> NoState]

Orders(n) == {p \in [1..n -> 1..n] : \A i, j \in 1..n : p[i] = p[j] => i = j}

InstantOf(T, i) == getTime[T[i].timestamp]

\* T in the order p: ascending in time, records of one instant in their
\* order in T
Chronological(T, p) ==
  \A i, j \in DOMAIN T :
    i < j => \/ InstantOf(T, p[i]) < InstantOf(T, p[j])
             \/ InstantOf(T, p[i]) = InstantOf(T, p[j]) /\ p[i] < p[j]

\* p keeps the records of one instant in the order they have in T
KeepsTies(T, p) ==
  \A i, j \in DOMAIN T :
    (i < j /\ InstantOf(T, p[i]) = InstantOf(T, p[j])) => p[i] < p[j]

\* recordOutcome called on the monitor of map st for each record of T, in
\* the order p
RECURSIVE RecordedInOrder(_, _, _, _)
RecordedInOrder(st, T, p, i) ==
  IF i > Len(T) THEN st
  ELSE RecordedInOrder(recordOutcome(st, T[p[i]].acquirer, T[p[i]].outcome), T, p, i + 1)

\* C20: initializeFromHistory(T) on a fresh monitor leaves the state that
\* calling recordOutcome(t.acquirer, t.outcome) for the records of T in
\* ascending order of timestamp leaves; the state does not depend on the
\* order of the records in T, records of equal timestamps keeping their
\* order; and T itself is not modified.
C20_ReplayInTimestampOrder ==
  op.name = "initializeFromHistory" =>
    LET T == op.transactions
    IN  /\ \A p \in Orders(Len(T)) :
             Chronological(T, p) => state = RecordedInOrder(Fresh, T, p, 1)
        /\ \A p \in Orders(Len(T)) :
             KeepsTies(T, p) =>
               initializeFromHistory(Fresh, [i \in DOMAIN T |-> T[p[i]]]).state = state
        /\ op.after = T

\* The history lists a later outcome of an acquirer before an earlier,
\* different one, and the monitor has taken them in the order of time
C20_Witness ==
  /\ op.name = "initializeFromHistory"
  /\ Len(op.transactions) = 2
  /\ op.transactions[1].acquirer = op.transactions[2].acquirer
  /\ op.transactions[1].outcome # op.transactions[2].outcome
  /\ InstantOf(op.transactions, 1) > InstantOf(op.transactions, 2)
  /\ state[op.transactions[1].acquirer].recentOutcomes
       = <<op.transactions[2].outcome, op.transactions[1].outcome>>
  /\ op.after = op.transactions

\* The entry of an acquirer after complete calls of recordOutcome, one for
\* each outcome of h from the i-th on
RECURSIVE AfterCalls(_, _, _, _)
AfterCalls(st, a, h, i) ==
  IF i > Len(h) THEN st[a] ELSE AfterCalls(recordOutcome(st, a, h[i]), a, h, i + 1)

Settled(a) == AfterCalls(getOrCreateState(Fresh, a), a, hist[a], 1)

\* C18: the window append, the update of the counters, the increment of
\* totalProcessed and the re-evaluation of the status of a recordOutcome call
\* are one step for every other operation: what getHealth and isAvailable
\* see and return is the state complete calls have left, never a window or
\* counters ahead of the status.
C18_RecordOutcomeAtomic ==
  op.name \in {"getHealth", "isAvailable"} =>
    /\ \A a \in AcquirerIds : state[a] # NoState => state[a] = Settled(a)
    /\ op.name = "getHealth" =>
         result = getHealth([state EXCEPT ![op.acquirer] = Settled(op.acquirer)],
                            op.acquirer).health
    /\ op.name = "isAvailable" /\ state[op.acquirer] # NoState =>
         result = (Settled(op.acquirer).status # "down")

\* getHealth reports the acquirer down right after the recordOutcome call
\* that took it down
C18_Witness ==
  /\ op.name = "getHealth"
  /\ op.acquirer = Observed
  /\ Len(hist[Observed]) >= 2
  /\ result.status = "down"
  /\ result.metrics.totalProcessed = Len(hist[Observed])

\* ---------------------------------------------------------------------------
\* Disabled acquirers and the fallback list of the engine
\* ---------------------------------------------------------------------------

DisabledNames == {acquirers[i].name : i \in {j \in DOMAIN acquirers : ~acquirers[j].enabled}}

\* C26: a configured acquirer with enabled = false is in the scores of no
\* decision, is the selected acquirer of no decision, and is in no list
\* getSequence returns, whatever its health and its approval rate.
C26_DisabledNeverUsed ==
  /\ Routed =>
       /\ result.selectedAcquirer \notin DisabledNames
       /\ \A s \in ScoreSet : s.acquirer \notin DisabledNames
  /\ Sequenced => Returned \cap DisabledNames = {}

\* getSequence ran while a disabled acquirer other than the primary was
\* available with an approval rate for the request above the minimum and
\* above that of every acquirer returned
C26_Witness ==
  /\ Sequenced
  /\ result # <<>>
  /\ \E d \in DisabledNames :
       /\ d # op.primaryAcquirer
       /\ StatusOf(state, d) = "healthy"
       /\ FGe(ResolvedRate(d), FLit(5, 10))
       /\ \A a \in Returned : FGt(ResolvedRate(d), ResolvedRate(a))

\* C27: route() of the engine never fills the fallback list: the
\* fallbackSequence of every decision is empty, so it never contains the
\* selected acquirer.
C27_EngineFallbackEmpty ==
  Routed =>
    /\ result.fallbackSequence = <<>>
    /\ \A i \in DOMAIN result.fallbackSequence :
         result.fallbackSequence[i].acquirer # result.selectedAcquirer

\* route() selected an acquirer for a request for which the sequencer has
\* fallbacks to offer
C27_Witness ==
  /\ Routed
  /\ result.selectedAcquirer \in EnabledNames
  /\ Len(result.scores) >= 2
  /\ getSequence(state, acquirers, Deployments[<<config, data>>].sequences,
                 FiltersOf(op.request), result.selectedAcquirer) # <<>>

\* C32: the RoutingEngine that finds the health monitor by a probe at module
\* load neither scores nor selects an acquirer the HealthMonitor reports as
\* down at the time of route().
C32_LegacyDownNeverRouted ==
  op.name = "legacyRoute" =>
    \A a \in AcquirerIds :
      StatusOf(state, a) = "down" =>
        /\ result.selectedAcquirer # a
        /\ \A s \in ScoreSet : s.acquirer # a

\* The place of a configured acquirer in the list
PlaceOf(name) == CHOOSE i \in DOMAIN acquirers : acquirers[i].name = name

MaxTotal == 6

TakeRates == {FZero, FLit(21, 10), FLit(31, 10)}

\* One turn of the loop of route for the first of two configured acquirers
ScoreOne ==
  /\ op.name = "init"
  /\ \E mode \in OptimizationMode, status \in {"healthy", "degraded"},
        total \in 1..MaxTotal, first \in TakeRates, second \in TakeRates :
       \E approved \in 0..total :
         LET acqs == <<[name |-> "Acquirer A", takeRate |-> first],
                       [name |-> "Acquirer B", takeRate |-> second]>>
         IN  /\ result' =
                  AcquirerScore(acqs[1], MODE_WEIGHTS[mode],
                                [approvalRate |-> RatioOf(approved, total)],
                                status, HEALTH_SCORE_MAP[status],
                                costScore(first, maxTakeRate(acqs)))
             /\ op' = [name |-> "score", mode |-> mode, approved |-> approved,
                       total |-> total, maxTakeRate |-> maxTakeRate(acqs)]
  /\ UNCHANGED <<state, hist, config, data>>

MaxGroup == 5
MaxSide == 2

\* The transactions of acquirer A in the data file: up to MaxGroup
\* MXN credit ones from MX of 200, up to MaxSide MXN debit ones from the US of
\* 50 and up to MaxSide USD credit ones from MX of 50, next to six of B
Sample(x, y, z) ==
  Group("A", 200, "MXN", "credit", "MX", x[1], x[2])
    \o Group("A", 50, "MXN", "debit", "US", y[1], y[2])
    \o Group("A", 50, "USD", "credit", "MX", z[1], z[2])
    \o Mx("B", 5, 6)

\* ApprovalFilters: every field is optional
SomeFilters ==
  { [currency |-> "MXN", cardType |-> "credit", country |-> "MX", amount |-> 200],
    [currency |-> "MXN"],
    [cardType |-> "credit", amount |-> 50],
    <<>> }

\* getApprovalRate("A", filters) of an analyzer whose loadAndCompute read
\* these transactions from the data file
GetApprovalRate ==
  /\ op.name = "init"
  /\ config = 1
  /\ data = 1
  /\ \E total \in 0..MaxGroup, left \in 0..MaxSide, right \in 0..MaxSide,
        filters \in SomeFilters :
       \E approved \in 0..total, l \in {0, left}, r \in {0, right} :
         \E transactions \in {Sample(<<approved, total>>, <<l, left>>, <<r, right>>)} :
           /\ result' = getApprovalRate(loadAndCompute(transactions), "A", filters)
           /\ op' = [name |-> "getApprovalRate", transactions |-> transactions,
                     acquirer |-> "A", filters |-> filters]
  /\ UNCHANGED <<state, hist, config, data>>

\* getApprovalRate of services/performance-analyzer.ts: the combined bucket if
\* it holds 5 transactions, else the smallest of the single-dimension buckets
\* that do, else the baseline whatever it holds
getApprovalRateMostSpecific(segs, acquirer, filters) ==
  LET kept     == Candidates(segs, acquirer, filters)
      combined == SelectSeq(kept, LAMBDA c : c.weight = 4)
      single   == SelectSeq(kept, LAMBDA c : c.weight = 2)
      first    == CHOOSE i \in DOMAIN single :
                    \A j \in DOMAIN single :
                      \/ single[i].sampleSize < single[j].sampleSize
                      \/ single[i].sampleSize = single[j].sampleSize /\ i <= j
      baseline == getSegment(segs, acquirer)
      Of(c, segment) ==
        [acquirer |-> acquirer, approvalRate |-> c.rate, sampleSize |-> c.sampleSize,
         segment |-> segment]
  IN  IF combined # <<>> THEN Of(combined[1], combined[1].segment)
      ELSE IF single # <<>> THEN Of(single[first], single[first].segment)
      ELSE IF baseline # NoSegment THEN Of(baseline, "overall")
      ELSE [acquirer |-> acquirer, approvalRate |-> FZero, sampleSize |-> 0,
            segment |-> "none"]

\* The same call on the analyzer of services/performance-analyzer.ts
GetApprovalRateMostSpecific ==
  /\ op.name = "init"
  /\ config = 1
  /\ data = 1
  /\ \E total \in 0..MaxGroup, left \in 0..MaxSide, right \in 0..MaxSide,
        filters \in SomeFilters :
       \E approved \in 0..total, l \in {0, left}, r \in {0, right} :
         \E transactions \in {Sample(<<approved, total>>, <<l, left>>, <<r, right>>)} :
           /\ result' = getApprovalRateMostSpecific(loadAndCompute(transactions), "A",
                                                    filters)
           /\ op' = [name |-> "getApprovalRateMostSpecific",
                     transactions |-> transactions, acquirer |-> "A",
                     filters |-> filters]
  /\ UNCHANGED <<state, hist, config, data>>

SpecScore == Init /\ [][ScoreOne \/ GetApprovalRate \/ GetApprovalRateMostSpecific]_vars

InUnit(x) == FGe(x, FZero) /\ FGe(FFromInt(1), x)

\* C25: with take rates that are not negative and approved <= total, the
\* approvalRateScore, healthScore, costScore and totalScore of a score all lie
\* between 0 and 1, both included.
C25_ScoresInUnitInterval ==
  op.name = "score" =>
    /\ InUnit(result.approvalRateScore)
    /\ InUnit(result.healthScore)
    /\ InUnit(result.costScore)
    /\ InUnit(result.totalScore)

\* A healthy acquirer that charges nothing and approved everything, next to
\* one that charges: every component is 1, in balanced mode
C25_Witness ==
  /\ op.name = "score"
  /\ op.mode = "balanced"
  /\ op.approved = op.total
  /\ result.healthStatus = "healthy"
  /\ result.takeRate = FZero
  /\ FGt(op.maxTakeRate, FZero)
  /\ result.costScore = FFromInt(1)
  /\ result.totalScore = FFromInt(1)

\* ---------------------------------------------------------------------------
\* The blended approval rate, against the transactions counted one by one
\* ---------------------------------------------------------------------------

Asked == op.name = "getApprovalRate"

Buckets == <<"combined", "currency", "cardType", "country", "amountRange", "baseline">>

\* The bucket is looked up for the filters of the call
Looked(bucket) ==
  CASE bucket = "combined" -> Has(op.filters, "currency") /\ Has(op.filters, "cardType")
    [] bucket = "currency" -> Has(op.filters, "currency")
    [] bucket = "cardType" -> Has(op.filters, "cardType")
    [] bucket = "country" -> Has(op.filters, "country")
    [] bucket = "amountRange" -> Has(op.filters, "amount")
    [] bucket = "baseline" -> TRUE

\* The transaction belongs to the bucket of the acquirer and filters of the call
Falls(tx, bucket) ==
  /\ tx.acquirer = op.acquirer
  /\ CASE bucket = "combined" ->
            tx.currency = op.filters.currency /\ tx.cardType = op.filters.cardType
       [] bucket = "currency" -> tx.currency = op.filters.currency
       [] bucket = "cardType" -> tx.cardType = op.filters.cardType
       [] bucket = "country" -> tx.country = op.filters.country
       [] bucket = "amountRange" ->
            getAmountRange(tx.amount) = getAmountRange(op.filters.amount)
       [] bucket = "baseline" -> TRUE

Members(bucket) ==
  {i \in DOMAIN op.transactions : Falls(op.transactions[i], bucket)}

CountIn(bucket) == Cardinality(Members(bucket))

ApprovedIn(bucket) ==
  Cardinality({i \in Members(bucket) : op.transactions[i].outcome = "approved"})

WeightOf(bucket) ==
  IF bucket = "combined" THEN 4 ELSE IF bucket = "baseline" THEN 1 ELSE 2

LabelOf(bucket) ==
  CASE bucket = "combined" -> op.filters.currency \o "/" \o op.filters.cardType
    [] bucket = "currency" -> op.filters.currency
    [] bucket = "cardType" -> op.filters.cardType
    [] bucket = "country" -> op.filters.country
    [] bucket = "amountRange" -> "amount:" \o getAmountRange(op.filters.amount)
    [] bucket = "baseline" -> "overall"

Qualifies(bucket) == Looked(bucket) /\ CountIn(bucket) >= 5

TooSmall(bucket) == Looked(bucket) /\ CountIn(bucket) \in 1..4

Participating == SelectSeq(Buckets, Qualifies)

RECURSIVE SampleUpTo(_)
SampleUpTo(i) ==
  IF i = 0 THEN 0 ELSE SampleUpTo(i - 1) + CountIn(Participating[i])

RECURSIVE WeightUpTo(_)
WeightUpTo(i) ==
  IF i = 0 THEN 0 ELSE WeightUpTo(i - 1) + WeightOf(Participating[i])

RateIn(bucket) == FDiv(FFromInt(ApprovedIn(bucket)), FFromInt(CountIn(bucket)))

\* rate * weight of the participating buckets, added up from the first on
RECURSIVE WeightedUpTo(_)
WeightedUpTo(i) ==
  IF i = 0 THEN FZero
  ELSE FAdd(WeightedUpTo(i - 1),
            FMul(RateIn(Participating[i]), FFromInt(WeightOf(Participating[i]))))

Labels ==
  LET named == SelectSeq(Participating, LAMBDA b : b # "baseline")
  IN  [i \in DOMAIN named |-> LabelOf(named[i])]

BlendedResult == Asked /\ Len(Participating) >= 2

\* C28: a bucket with fewer than 5 transactions, the baseline included, adds
\* nothing to the result of getApprovalRate: the result is the one the buckets
\* with 5 transactions or more give, in rate, sample size and segment label,
\* and it is rate 0, sample size 0 and label "none" when there is no such
\* bucket.
C28_SmallBucketsIgnored ==
  Asked =>
    LET n == Len(Participating)
    IN  /\ result.sampleSize = SampleUpTo(n)
        /\ result.segment =
             IF n = 0 THEN "none"
             ELSE IF Labels = <<>> THEN "overall" ELSE Join(Labels, "+")
        /\ result.approvalRate =
             IF n = 0 THEN FZero
             ELSE IF n = 1 THEN RateIn(Participating[1])
             ELSE FDiv(WeightedUpTo(n), FFromInt(WeightUpTo(n)))

\* The combined bucket and the card type bucket are too small while the
\* currency bucket and the baseline hold enough, the small buckets having a
\* rate of their own
C28_Witness ==
  /\ Asked
  /\ TooSmall("combined")
  /\ TooSmall("cardType")
  /\ Qualifies("currency")
  /\ Qualifies("baseline")
  /\ RateIn("combined") # RateIn("currency")
  /\ RateIn("combined") # RateIn("baseline")
  /\ result.segment = "MXN"

\* C29: with two or more qualifying buckets the rate is the sum of
\* rate * weight over them divided by the sum of their weights, the weight
\* being 4 for currency x cardType, 2 for currency, cardType, country and
\* amountRange, 1 for the baseline; with exactly one qualifying bucket its
\* rate, sample size and label are returned as they are, the label of the
\* baseline being "overall".
C29_WeightedAverage ==
  Asked =>
    /\ Len(Participating) >= 2 =>
         /\ WeightUpTo(Len(Participating)) =
              4 * (IF Qualifies("combined") THEN 1 ELSE 0)
              + 2 * Cardinality({b \in {"currency", "cardType", "country", "amountRange"} :
                                   Qualifies(b)})
              + (IF Qualifies("baseline") THEN 1 ELSE 0)
         /\ result.approvalRate =
              FDiv(WeightedUpTo(Len(Participating)),
                   FFromInt(WeightUpTo(Len(Participating))))
    /\ Len(Participating) = 1 =>
         /\ result.approvalRate = RateIn(Participating[1])
         /\ result.sampleSize = CountIn(Participating[1])
         /\ result.segment = LabelOf(Participating[1])

\* All six buckets qualify and do not all have the same rate
C29_Witness ==
  /\ Asked
  /\ Len(Participating) = 6
  /\ RateIn("combined") # RateIn("baseline")
  /\ RateIn("currency") # RateIn("country")
  /\ result.approvalRate # RateIn("combined")
  /\ result.approvalRate # RateIn("baseline")

\* C30: the sample size of a blended result is the sum of the sample sizes of
\* the participating buckets, the baseline among them, and so greater than
\* the sample size of the baseline; its segment label is the labels of the
\* participating buckets other than the baseline, joined by "+".
C30_BlendedSampleAndLabel ==
  BlendedResult =>
    /\ Qualifies("baseline")
    /\ result.sampleSize = SampleUpTo(Len(Participating))
    /\ result.sampleSize > CountIn("baseline")
    /\ Labels # <<>>
    /\ result.segment = Join(Labels, "+")

\* A blend of the baseline and the five other buckets, not all of one size
C30_Witness ==
  /\ BlendedResult
  /\ result.segment = "MXN/credit+MXN+credit+MX+amount:mid"
  /\ CountIn("currency") # CountIn("country")
  /\ CountIn("combined") < CountIn("baseline")
  /\ result.sampleSize > 2 * CountIn("baseline")

AskedEither == op.name \in {"getApprovalRate", "getApprovalRateMostSpecific"}

\* C31: when no bucket of the acquirer asked about holds 5 transactions, the
\* baseline included, and so also when the data has no transaction of the
\* acquirer, getApprovalRate returns approvalRate 0, sampleSize 0 and the
\* segment "none".
C31_NoDataSignal ==
  (AskedEither /\ Participating = <<>>) =>
    /\ result.approvalRate = FZero
    /\ result.sampleSize = 0
    /\ result.segment = "none"

\* ---------------------------------------------------------------------------
\* SpecStream: errors and approvals of one acquirer, in up to MaxRuns runs
\* and over nearly twice the window
\* ---------------------------------------------------------------------------

MaxStream == 37

StreamRecord ==
  \E o \in {"error", "approved"} :
    /\ TotalProcessed(Observed) < MaxStream
    /\ Runs(Append(hist[Observed], o)) <= MaxRuns
    /\ RecordOutcome(Observed, o)

SpecStream == InitMonitor /\ [][StreamRecord]_vars

\* ---------------------------------------------------------------------------
\* The counters and the statuses of the monitor
\* ---------------------------------------------------------------------------

\* The counters of acquirer a before it has a state
CountersOf(st, a) ==
  IF st[a] = NoState
    THEN [consecutiveFailures |-> 0, consecutiveSuccesses |-> 0, totalProcessed |-> 0]
    ELSE st[a]

\* C33: after every recordOutcome call for an acquirer consecutiveFailures
\* is the length of the run of failures that ends all the outcomes recorded
\* for it and consecutiveSuccesses the length of the run of successes that
\* ends them, over more than the 20 outcomes of the window too; one of the
\* two is 0 and the other at least 1; a failure sets consecutiveSuccesses to
\* 0 and adds 1 to consecutiveFailures, a success does the inverse, and
\* totalProcessed grows by 1.
C33_CountersAreTrailingRuns ==
  [][op'.name = "recordOutcome" =>
       LET a      == op'.acquirer
           o      == op'.outcome
           before == CountersOf(state, a)
           s      == state'[a]
       IN  /\ s.consecutiveFailures = TrailingRun(hist'[a], {"error", "timeout"})
           /\ s.consecutiveSuccesses = TrailingRun(hist'[a], {"approved", "declined"})
           /\ (s.consecutiveFailures = 0) # (s.consecutiveSuccesses = 0)
           /\ s.consecutiveFailures + s.consecutiveSuccesses >= 1
           /\ isFailure(o) =>
                /\ s.consecutiveSuccesses = 0
                /\ s.consecutiveFailures = before.consecutiveFailures + 1
           /\ isSuccess(o) =>
                /\ s.consecutiveFailures = 0
                /\ s.consecutiveSuccesses = before.consecutiveSuccesses + 1
           /\ s.totalProcessed = before.totalProcessed + 1]_vars

\* A run of successes of both kinds longer than the window, after a failure
C33_Witness ==
  /\ op.name = "recordOutcome"
  /\ isFailure(hist[Observed][1])
  /\ state[Observed].consecutiveSuccesses > 20
  /\ state[Observed].consecutiveSuccesses = Len(hist[Observed]) - 1
  /\ state[Observed].consecutiveFailures = 0
  /\ state[Observed].totalProcessed = Len(hist[Observed])

\* C35: in every state of the monitor, an acquirer whose status is healthy
\* has at most 0.30 of its window in errors and timeouts and
\* consecutiveFailures below 5, and an acquirer whose status is degraded has
\* consecutiveFailures below 5.
C35_StatusBounds ==
  \A a \in AcquirerIds :
    state[a] # NoState =>
      /\ state[a].status = "healthy" =>
           /\ ~FailRateAbove(state[a], 30, 100)
           /\ state[a].consecutiveFailures < 5
      /\ state[a].status = "degraded" => state[a].consecutiveFailures < 5

\* A healthy acquirer with exactly 0.30 of its window in failures, the last
\* three outcomes among them
C35_Witness ==
  /\ op.name = "recordOutcome"
  /\ state[Observed].status = "healthy"
  /\ Failures(state[Observed]) * 100 = 30 * Len(state[Observed].recentOutcomes)
  /\ state[Observed].consecutiveFailures >= 3

\* C36: whatever was recorded for the acquirer before, once the last 17
\* outcomes recorded for it are all successes its status is healthy, and it
\* is healthy after every further success.
C36_HealthyAfterSeventeen ==
  \A a \in AcquirerIds :
    (state[a] # NoState /\ TrailingRun(hist[a], {"approved", "declined"}) >= 17) =>
      state[a].status = "healthy"

\* The 17th success after a window full of errors: three errors are left in
\* the window
C36_Witness ==
  /\ op.name = "recordOutcome"
  /\ TrailingRun(hist[Observed], {"approved", "declined"}) = 17
  /\ Failures(state[Observed]) = 3
  /\ Len(hist[Observed]) = 37
  /\ state[Observed].status = "healthy"

\* h is e errors followed by j approved outcomes
ErrorsThenApproved(h, e, j) ==
  /\ Len(h) = e + j
  /\ \A i \in 1..e : h[i] = "error"
  /\ \A i \in (e + 1)..(e + j) : h[i] = "approved"

\* C37: a success can send an acquirer back to down while it recovers.  On a
\* fresh acquirer, after 5 errors and 3 approved outcomes the status is
\* degraded, the 4th approved outcome makes it down (5 failures in a window
\* of 9), the 5th degraded again and the 6th leaves it degraded.  In general
\* a degraded acquirer becomes down on a success exactly when the fail rate
\* of the window, the success appended, exceeds 0.50.
C37_SuccessCanSendDown ==
  [][op'.name = "recordOutcome" =>
       LET a == op'.acquirer
           h == hist'[a]
           s == state'[a]
       IN  /\ ErrorsThenApproved(h, 5, 3) => s.status = "degraded"
           /\ ErrorsThenApproved(h, 5, 4) => s.status = "down"
           /\ ErrorsThenApproved(h, 5, 5) => s.status = "degraded"
           /\ ErrorsThenApproved(h, 5, 6) => s.status = "degraded"
           /\ (StatusOf(state, a) = "degraded" /\ isSuccess(op'.outcome)) =>
                (s.status = "down" <=> FailRateAbove(s, 50, 100))]_vars

\* The 4th approved outcome after 5 errors
C37_Witness ==
  /\ op.name = "recordOutcome"
  /\ ErrorsThenApproved(hist[Observed], 5, 4)
  /\ state[Observed].consecutiveSuccesses = 4
  /\ state[Observed].status = "down"

\* C38: on a fresh acquirer the first error or timeout makes the status
\* degraded and the second one in a row makes it down and the acquirer
\* unavailable: the fail rate is taken over the outcomes seen so far, and
\* down is reached without 5 failures in a row.
C38_TwoFailuresDown ==
  \A a \in AcquirerIds :
    /\ (Len(hist[a]) = 1 /\ isFailure(hist[a][1])) =>
         /\ state[a].status = "degraded"
         /\ isAvailable(state, a)
    /\ (Len(hist[a]) = 2 /\ isFailure(hist[a][1]) /\ isFailure(hist[a][2])) =>
         /\ state[a].status = "down"
         /\ ~isAvailable(state, a)
         /\ state[a].consecutiveFailures = 2

\* An error and then a timeout
C38_Witness ==
  /\ op.name = "recordOutcome"
  /\ hist[Observed] = <<"error", "timeout">>
  /\ state[Observed].status = "down"
  /\ state[Observed].consecutiveFailures < 5
  /\ ~isAvailable(state, Observed)

(***************************************************************************)
(* The engine and the sequencer side by side                               *)
(***************************************************************************)
\* getSequence(request, route(request).selectedAcquirer), asked of the
\* sequencer right after route(request) returned
SequenceAfterRoute ==
  getSequence(state, acquirers, Deployments[<<config, data>>].sequences,
              FiltersOf(op.request), result.selectedAcquirer)

\* C39: with one monitor and one analyzer behind both and no outcome recorded
\* in between, every entry of getSequence(request, route(request).selectedAcquirer)
\* names an acquirer of route(request).scores other than the selected one,
\* with that score's approvalRate as its expectedApprovalRate; when route
\* selects "NONE" the sequence is empty.
C39_FallbackWithinScores ==
  Routed =>
    /\ \A i \in DOMAIN SequenceAfterRoute :
         /\ SequenceAfterRoute[i].acquirer # result.selectedAcquirer
         /\ \E s \in ScoreSet :
              /\ s.acquirer = SequenceAfterRoute[i].acquirer
              /\ s.approvalRate = SequenceAfterRoute[i].expectedApprovalRate
    /\ result.selectedAcquirer = "NONE" => SequenceAfterRoute = <<>>

\* route() scored three acquirers with one of them down for the monitor's
\* other callers, and the sequencer offers a fallback but not every score
C39_Witness ==
  /\ Routed
  /\ Len(result.scores) >= 3
  /\ \E a \in Names : ~isAvailable(state, a)
  /\ SequenceAfterRoute # <<>>
  /\ \E s \in ScoreSet :
       /\ s.acquirer # result.selectedAcquirer
       /\ \A i \in DOMAIN SequenceAfterRoute : SequenceAfterRoute[i].acquirer # s.acquirer

\* route() found every enabled acquirer down
C39_NoneWitness ==
  /\ Routed
  /\ result.selectedAcquirer = "NONE"
  /\ \E a \in Names : ~isAvailable(state, a)

(***************************************************************************)
(* One acquirer's outcomes and the other acquirers                         *)
(***************************************************************************)
\* C40: recordOutcome(a, o) changes the entry of a alone: for every other
\* acquirer identifier the entry of the map (window, both counters, status,
\* totalProcessed, or its absence) is what it was, and so are what getHealth
\* reports of it and its availability.
C40_OthersUntouched ==
  [][op'.name = "recordOutcome" =>
       \A b \in AcquirerIds \ {op'.acquirer} :
         /\ state'[b] = state[b]
         /\ getHealth(state', b).health = getHealth(state, b).health
         /\ isAvailable(state', b) = isAvailable(state, b)]_vars

\* recordOutcome has sent one acquirer down while another, with an outcome of
\* its own on record, is healthy and available
C40_Witness ==
  /\ op.name = "recordOutcome"
  /\ ~isAvailable(state, op.acquirer)
  /\ \E b \in Names \ {op.acquirer} :
       /\ state[b] # NoState
       /\ state[b].totalProcessed >= 1
       /\ state[b].consecutiveFailures = 0
       /\ state[b].status = "healthy"
       /\ isAvailable(state, b)

====
